---- MODULE Spec2Model ----
(***************************************************************************)
(* State-machine model of the VibeTrading core.                            *)
(*                                                                         *)
(* The module holds several sub-models that share no state; each has its   *)
(* own specification:                                                      *)
(*   SpecKS    kill switch + order manager (live runtime)                  *)
(*   SpecRM    risk manager equity checks                                  *)
(*   SpecPT    position tracker fills                                      *)
(*   SpecFill  fill simulator and the execution adapters' fills            *)
(*   SpecBT    bar engine (backtest) runs inside one process               *)
(* A specification leaves the variables of the other sub-models unchanged. *)
(***************************************************************************)
EXTENDS Integers, Sequences, FiniteSets, TLC

VARIABLES
    \* ---- kill switch + order manager of one market ----
    standalone,     \* settings.standalone_mode
    ksTriggered,    \* KillSwitch._triggered of the market's kill switch
    otherTriggered, \* KillSwitch._triggered of another market's kill switch
    ksInbox,        \* undelivered RISK.KILL_SWITCH messages of the order manager
    ksCycles,       \* number of trigger() calls that latched (bounded)
    omRunning,      \* OrderManager._running
    omSubscribed,   \* the order manager subscribed to RISK.KILL_SWITCH in start()
    omKilled,       \* OrderManager._killed
    orders,         \* sequence of order statuses as the broker sees them
    pending,        \* OrderManager._pending_orders (order ids)
    lastSignal,     \* history: what the last processed signal did
    ksResetSince,   \* history: the switch was reset after its last trigger
    lastActivation, \* history: open orders / cancel attempts at the last activation
    \* ---- risk manager ----
    rmMaxDrawdownPct,   \* RiskManager._max_drawdown_pct
    rmDailyLossLimitPct,\* RiskManager._daily_loss_limit_pct
    rmPeak,             \* RiskManager._peak_equity (cents)
    rmDailyStart,       \* RiskManager._daily_start_equity (cents)
    rmCurrent,          \* RiskManager._current_equity (cents)
    rmTriggered,        \* RiskManager._kill_switch._triggered
    eqHist,             \* history: the equity updates so far, in order
    resetAt,            \* history: number of updates seen at the last reset_daily (0: none)
    lastUpdate,         \* history: the switch before and after the last update_equity
    \* ---- position tracker ----
    ptPositions,        \* PositionTracker._positions: symbol -> position or NoPosition
    ptNet,              \* history: net signed sum of the fill quantities per symbol
    ptFills,            \* history: number of fills processed
    ptLast,             \* history: the last fill, the positions before it, its realised P&L
    \* ---- fill simulation and execution adapters ----
    rng,                \* state of the process-wide `random` module
    simExists,          \* fill_logic._default_simulator is not None
    fsMinLatency,       \* settings.fill_logic.min_latency_ms
    lastFill,           \* history: the last Fill an adapter or the simulator produced
    \* ---- bar engine (backtest) runs of one process ----
    stratLoaded,        \* strategy_loader._loaded_strategies holds the strategy
    stratInit,          \* StrategyWrapper._initialized of the cached wrapper
    strat,              \* the cached strategy's state for the symbol
    engines,            \* the BacktestEngine objects of the process
    lastRun,            \* history: input, per-bar record and result of the last run()
    nRuns,              \* history: number of run() calls made
    sg,                 \* an engine fed signals directly: positions, trades, fills
    sgLast,             \* history: the last _process_signal call and the state before it
    pf,                 \* a closed-trade list and the metrics computed from it
    sc,                 \* one run() of an engine over an ascending stream, bar by bar
    wfRun,              \* WalkForwardValidator.run: the cached strategy, the runs made
    \* ---- one seeded FillSimulator among the simulators of a process ----
    simTracked,         \* the seeded FillSimulator object: created, seed
    simCalls,           \* history: its simulate_fill calls (order, price, fill)
    \* ---- V2 strategy registry: one load or validation call ----
    regInput,           \* the call: operation, strategy file, import lists
    regLast,            \* history: outcome of the call (steps reached, error)
    \* ---- V2 policy merge: one merge_policy_overrides call ----
    mergeDefaults,      \* the defaults argument (a PolicySet)
    mergeOverrides,     \* the overrides argument (Optional PolicyOverrides)
    merged,             \* Optional: the PolicySet returned
    \* ---- V2 runner loop: one run_mode call ----
    runner,             \* run_mode's position, locals and inputs
    runLog,             \* history: calls made on the strategy and the execution port
    \* ---- BrokerStub and one order ----
    stub,               \* the order's status, BrokerStub._open_orders, suspended submits
    stLog,              \* history: the statuses assigned to the order, in order
    \* ---- StrategyRunner pipeline: one run_async call ----
    pipe,               \* run_async's position, the ports' connections, the orders
    pipeLog,            \* history: the calls stop() made on the components, in order
    \* ---- walk-forward validation: one generate_windows call ----
    wfConfig,           \* the WalkForwardConfig: dates and window sizes, in days
    wfWindows,          \* Optional: the list generate_windows returned
    \* ---- two signal engines of one process with the same strategy name ----
    sh,                 \* the cached strategy's state, each engine's progress and signals
    \* ---- order manager coroutines interleaving at their awaits ----
    ot,                 \* latch, pending orders, positions of the handlers and tasks
    \* ---- one KillSwitch object and the trigger calls made on it ----
    kl,                 \* the switch's fields, suspended broadcasts, events published
    \* ---- generate_windows, turn by turn ----
    wl,                 \* configuration, current_is_start, windows listed, position
    \* ---- the live runner's candle path ----
    fd                  \* socket, receive task, candle queue, start()'s position

ksVars == <<standalone, ksTriggered, otherTriggered, ksInbox, ksCycles, omRunning,
            omSubscribed, omKilled, orders, pending, lastSignal, ksResetSince,
            lastActivation>>

rmVars == <<rmMaxDrawdownPct, rmDailyLossLimitPct, rmPeak, rmDailyStart, rmCurrent,
            rmTriggered, eqHist, resetAt, lastUpdate>>

ptVars == <<ptPositions, ptNet, ptFills, ptLast>>

fsVars == <<rng, simExists, fsMinLatency, lastFill>>

btVars == <<stratLoaded, stratInit, strat, engines, lastRun, nRuns>>

sqVars == <<simTracked, simCalls>>

rgVars == <<regInput, regLast>>

\* The variables of the sub-models added after the first five.
mgVars == <<mergeDefaults, mergeOverrides, merged>>

rnVars == <<runner, runLog>>

stVars == <<stub, stLog>>

moreVars == <<sqVars, rgVars, mgVars, rnVars, stVars>>

plVars == <<pipe, pipeLog>>

wfVars == <<wfConfig, wfWindows>>

shVars == <<sh>>

extVars == <<plVars, wfVars, shVars>>

sgVars == <<sg, sgLast>>

pfVars == <<pf>>

scVars == <<sc>>

wrVars == <<wfRun>>

lateVars == <<sgVars, pfVars, scVars, wrVars>>

otVars == <<ot>>

klVars == <<kl>>

wlVars == <<wl>>

fdVars == <<fd>>

endVars == <<otVars, klVars, wlVars, fdVars>>

vars == <<ksVars, rmVars, ptVars, fsVars, btVars, moreVars, extVars, lateVars, endVars>>

\* A step of one sub-model leaves the others alone.
KSOnly == UNCHANGED <<rmVars, ptVars, fsVars, btVars, moreVars, extVars, lateVars, endVars>>
RMOnly == UNCHANGED <<ksVars, ptVars, fsVars, btVars, moreVars, extVars, lateVars, endVars>>
PTOnly == UNCHANGED <<ksVars, rmVars, fsVars, btVars, moreVars, extVars, lateVars, endVars>>
FSOnly == UNCHANGED <<ksVars, rmVars, ptVars, btVars, moreVars, extVars, lateVars, endVars>>
BTOnly == UNCHANGED <<ksVars, rmVars, ptVars, fsMinLatency, lastFill, moreVars, extVars, lateVars, endVars>>
SQOnly == UNCHANGED <<ksVars, rmVars, ptVars, fsMinLatency, lastFill, btVars, rgVars, mgVars,
                      rnVars, stVars, extVars, lateVars, endVars>>
RGOnly == UNCHANGED <<ksVars, rmVars, ptVars, fsVars, btVars, sqVars, mgVars, rnVars, stVars,
                      extVars, lateVars, endVars>>
MGOnly == UNCHANGED <<ksVars, rmVars, ptVars, fsVars, btVars, sqVars, rgVars, rnVars, stVars,
                      extVars, lateVars, endVars>>
RNOnly == UNCHANGED <<ksVars, rmVars, ptVars, fsVars, btVars, sqVars, rgVars, mgVars, stVars,
                      extVars, lateVars, endVars>>
STOnly == UNCHANGED <<ksVars, rmVars, ptVars, fsMinLatency, lastFill, btVars, sqVars, rgVars,
                      mgVars, rnVars, extVars, lateVars, endVars>>
PLOnly == UNCHANGED <<ksVars, rmVars, ptVars, fsVars, btVars, moreVars, wfVars, shVars,
                      lateVars, endVars>>
WFOnly == UNCHANGED <<ksVars, rmVars, ptVars, fsVars, btVars, moreVars, plVars, shVars,
                      lateVars, endVars>>
SHOnly == UNCHANGED <<ksVars, rmVars, ptVars, fsVars, btVars, moreVars, plVars, wfVars,
                      lateVars, endVars>>
SGOnly == UNCHANGED <<ksVars, rmVars, ptVars, fsMinLatency, lastFill, btVars, moreVars,
                      extVars, pfVars, scVars, wrVars, endVars>>
PFOnly == UNCHANGED <<ksVars, rmVars, ptVars, fsVars, btVars, moreVars, extVars, sgVars,
                      scVars, wrVars, endVars>>
SCOnly == UNCHANGED <<ksVars, rmVars, ptVars, fsVars, btVars, moreVars, extVars, sgVars,
                      pfVars, wrVars, endVars>>
WROnly == UNCHANGED <<ksVars, rmVars, ptVars, fsMinLatency, lastFill, btVars, moreVars,
                      extVars, sgVars, pfVars, scVars, endVars>>
OTOnly == UNCHANGED <<ksVars, rmVars, ptVars, fsVars, btVars, moreVars, extVars, lateVars,
                      klVars, wlVars, fdVars>>
KLOnly == UNCHANGED <<ksVars, rmVars, ptVars, fsVars, btVars, moreVars, extVars, lateVars,
                      otVars, wlVars, fdVars>>
WLOnly == UNCHANGED <<ksVars, rmVars, ptVars, fsVars, btVars, moreVars, extVars, lateVars,
                      otVars, klVars, fdVars>>
FDOnly == UNCHANGED <<ksVars, rmVars, ptVars, fsVars, btVars, moreVars, extVars, lateVars,
                      otVars, klVars, wlVars>>

(***************************************************************************)
(* Kill switch and order manager                                           *)
(*                                                                         *)
(* One market's KillSwitch and OrderManager are modelled in full; a second *)
(* market is present only through its KillSwitch, whose broadcast goes to  *)
(* the same subject (Subjects.KILL_SWITCH carries no market).              *)
(***************************************************************************)

\* Bounds.
MaxOrders == 2
MaxKsCycles == 2

OpenStatuses == {"submitted", "partial"}
TerminalStatuses == {"filled", "cancelled", "rejected"}

NoSubmit == [status |-> "none", errorMessage |-> <<>>, tracked |-> FALSE,
             propagated |-> FALSE]
NoSignal == [outcome |-> "none", ksTriggered |-> FALSE, afterReset |-> FALSE,
             order |-> 0, brokerRaised |-> FALSE, afterFailure |-> FALSE,
             submit |-> NoSubmit]
NoActivation == [open |-> {}, attempted |-> {}, seen |-> FALSE]

\* Orders that are open at the broker (submitted and not terminal).
OpenOrders == {i \in 1..Len(orders) : orders[i] \in OpenStatuses}

InitKSWith(modes) ==
    /\ standalone \in modes
    /\ ksTriggered = FALSE
    /\ otherTriggered = FALSE
    /\ ksInbox = 0
    /\ ksCycles = 0
    /\ omRunning = FALSE
    /\ omSubscribed = FALSE
    /\ omKilled = FALSE
    /\ orders = <<>>
    /\ pending = {}
    /\ lastSignal = NoSignal
    /\ ksResetSince = FALSE
    /\ lastActivation = NoActivation

InitKS == InitKSWith(BOOLEAN)

\* Whether OrderManager.start subscribes to RISK.KILL_SWITCH: only outside
\* standalone mode.
StartSubscribes == ~standalone

\* OrderManager.start.
OMStart ==
    /\ ~omRunning
    /\ omRunning' = TRUE
    /\ omSubscribed' = StartSubscribes
    /\ UNCHANGED <<standalone, ksTriggered, otherTriggered, ksInbox, ksCycles,
                   omKilled, orders, pending, lastSignal, ksResetSince,
                   lastActivation>>
    /\ KSOnly

\* messaging.publish(Subjects.KILL_SWITCH, event): one message for every
\* subscribed consumer; publishOk = FALSE is the publish raising, which trigger
\* catches and logs.
Broadcast(publishOk) ==
    IF publishOk /\ omSubscribed THEN ksInbox + 1 ELSE ksInbox

\* KillSwitch.trigger of the market's switch (manual, or from
\* RiskManager._check_drawdown / _check_daily_loss).
KSTrigger(publishOk) ==
    /\ ksCycles < MaxKsCycles
    /\ ~ksTriggered
    /\ ksTriggered' = TRUE
    /\ ksCycles' = ksCycles + 1
    /\ ksResetSince' = FALSE
    /\ ksInbox' = Broadcast(publishOk)
    /\ UNCHANGED <<standalone, otherTriggered, omRunning, omSubscribed, omKilled,
                   orders, pending, lastSignal, lastActivation>>
    /\ KSOnly

\* KillSwitch.trigger of another market's switch: same subject, same subscribers.
KSTriggerOther(publishOk) ==
    /\ ~otherTriggered
    /\ otherTriggered' = TRUE
    /\ ksInbox' = Broadcast(publishOk)
    /\ UNCHANGED <<standalone, ksTriggered, ksCycles, omRunning, omSubscribed,
                   omKilled, orders, pending, lastSignal, ksResetSince,
                   lastActivation>>
    /\ KSOnly

\* KillSwitch.trigger on an already triggered switch: logs and returns.
KSTriggerAgain ==
    /\ ksTriggered
    /\ UNCHANGED ksVars
    /\ KSOnly

\* KillSwitch.reset: clears the switch's own flag; nothing is published.
KSReset ==
    /\ ksTriggered
    /\ ksTriggered' = FALSE
    /\ ksResetSince' = TRUE
    /\ UNCHANGED <<standalone, otherTriggered, ksInbox, ksCycles, omRunning,
                   omSubscribed, omKilled, orders, pending, lastSignal,
                   lastActivation>>
    /\ KSOnly

\* The orders _on_kill_switch attempts to cancel: those of _pending_orders.
CancelTargets == pending

\* OrderManager._on_kill_switch: latch, then one cancel attempt per pending order;
\* `ok` are the attempts that succeed, the others raise and are logged.
OnKillSwitch(ok) ==
    /\ ksInbox > 0
    /\ ok \subseteq CancelTargets
    /\ ksInbox' = ksInbox - 1
    /\ omKilled' = TRUE
    /\ orders' = [i \in 1..Len(orders) |->
                    IF i \in ok /\ orders[i] \in OpenStatuses
                    THEN "cancelled" ELSE orders[i]]
    /\ pending' = {i \in pending : ~(i \in ok /\ orders[i] \in OpenStatuses)}
    /\ lastActivation' = [open |-> OpenOrders, attempted |-> CancelTargets,
                          seen |-> TRUE]
    /\ UNCHANGED <<standalone, ksTriggered, otherTriggered, ksCycles, omRunning,
                   omSubscribed, lastSignal, ksResetSince>>
    /\ KSOnly

\* Whether _process_signal drops the signal.
SignalDropped == omKilled

\* The try block of _process_signal without its except clause: an exception of
\* submit_order leaves the order as _signal_to_order made it and reaches the caller.
SubmitOrderUnhandled(brokerOk) ==
    IF brokerOk
    THEN [status |-> "submitted", errorMessage |-> <<>>, tracked |-> TRUE,
          propagated |-> FALSE]
    ELSE [status |-> "pending", errorMessage |-> <<>>, tracked |-> FALSE,
          propagated |-> TRUE]

\* The try/except of _process_signal around broker.submit_order: what becomes of
\* the order, whether it enters _pending_orders, whether an exception leaves
\* _process_signal.  brokerOk = FALSE is submit_order raising an OrderError e: the
\* except clause sets REJECTED and error_message = str(e), persists (_persist_order
\* catches its own errors) and logs.
SubmitOrder(brokerOk) ==
    IF brokerOk
    THEN [status |-> "submitted", errorMessage |-> <<>>, tracked |-> TRUE,
          propagated |-> FALSE]
    ELSE [status |-> "rejected", errorMessage |-> <<"str(e)">>, tracked |-> FALSE,
          propagated |-> FALSE]

\* OrderManager._process_signal: drop when killed; otherwise create the order and
\* submit it (brokerOk = FALSE: submit_order raises, the order is REJECTED).
ProcessSignal(brokerOk) ==
    /\ omRunning
    /\ IF SignalDropped
       THEN /\ lastSignal' = [outcome |-> "dropped", ksTriggered |-> ksTriggered,
                              afterReset |-> ksResetSince /\ ~ksTriggered,
                              order |-> 0, brokerRaised |-> FALSE,
                              afterFailure |-> lastSignal.brokerRaised,
                              submit |-> NoSubmit]
            /\ UNCHANGED <<orders, pending>>
       ELSE /\ Len(orders) < MaxOrders
            /\ LET submit == SubmitOrder(brokerOk)
                   id == Len(orders) + 1
               IN /\ orders' = Append(orders, submit.status)
                  /\ pending' = IF submit.tracked THEN pending \cup {id} ELSE pending
                  /\ lastSignal' = [outcome |-> "order", ksTriggered |-> ksTriggered,
                                    afterReset |-> ksResetSince /\ ~ksTriggered,
                                    order |-> id, brokerRaised |-> ~brokerOk,
                                    afterFailure |-> lastSignal.brokerRaised,
                                    submit |-> submit]
    /\ UNCHANGED <<standalone, ksTriggered, otherTriggered, ksInbox, ksCycles,
                   omRunning, omSubscribed, omKilled, ksResetSince, lastActivation>>
    /\ KSOnly

\* OrderManager.submit_signal_direct (standalone path).
SubmitSignalDirect == \E brokerOk \in BOOLEAN : ProcessSignal(brokerOk)

\* OrderManager._on_signal_message (NATS path; subscribed in start()).
OnSignalMessage ==
    /\ omSubscribed
    /\ \E brokerOk \in BOOLEAN : ProcessSignal(brokerOk)

\* Broker fill callback -> OrderManager._handle_fill_async: the order leaves
\* _pending_orders on any fill, partial or full.
OnFill(i, full) ==
    /\ i \in OpenOrders
    /\ orders' = [orders EXCEPT ![i] = IF full THEN "filled" ELSE "partial"]
    /\ pending' = pending \ {i}
    /\ UNCHANGED <<standalone, ksTriggered, otherTriggered, ksInbox, ksCycles,
                   omRunning, omSubscribed, omKilled, lastSignal, ksResetSince,
                   lastActivation>>
    /\ KSOnly

NextKS ==
    \/ OMStart
    \/ \E publishOk \in BOOLEAN : KSTrigger(publishOk)
    \/ \E publishOk \in BOOLEAN : KSTriggerOther(publishOk)
    \/ KSTriggerAgain
    \/ KSReset
    \/ \E ok \in SUBSET pending : OnKillSwitch(ok)
    \/ SubmitSignalDirect
    \/ OnSignalMessage
    \/ \E i \in 1..MaxOrders, full \in BOOLEAN : OnFill(i, full)

(***************************************************************************)
(* Risk manager                                                            *)
(*                                                                         *)
(* Equity is in cents (100000.00 is 10000000).  The code divides Decimals: *)
(* (peak - current) / peak * 100 >= limit.  For equities of this size the  *)
(* quotient's distance to the limit is far above Decimal's 28 digits, so   *)
(* the comparison is the exact one, written here without division.         *)
(***************************************************************************)

\* Bound on the number of update_equity calls.
MaxUpdates == 4

\* RiskManager.start(initial_equity): the scenario's 100000.
InitialEquity == 10000000

\* Equity values fed to update_equity.
EquityValues == {0, 8999999, 9000000, 9500000, 10000000, 10500000}

\* RiskSettings.max_drawdown_pct (default 10.0).
DefaultMaxDrawdownPct == 10
\* RiskSettings.daily_loss_limit_pct (default 3.0), and a setting that leaves the
\* drawdown check alone to decide.
DefaultDailyLossLimitPct == 3
DailyLossLimitValues == {DefaultDailyLossLimitPct, 100}

\* IF reference = 0 the check returns early; otherwise
\* (reference - current) / reference * 100 >= limit.
BreachStrict(reference, current, limit) ==
    reference # 0 /\ (reference - current) * 100 > limit * reference

Breach(reference, current, limit) ==
    reference # 0 /\ (reference - current) * 100 >= limit * reference

NoUpdate == [seen |-> FALSE, before |-> FALSE, after |-> FALSE,
             peak |-> 0, dailyStart |-> 0, current |-> 0]

InitRMWith(limits) ==
    /\ rmMaxDrawdownPct = DefaultMaxDrawdownPct
    /\ rmDailyLossLimitPct \in limits
    /\ rmPeak = InitialEquity
    /\ rmDailyStart = InitialEquity
    /\ rmCurrent = InitialEquity
    /\ rmTriggered = FALSE
    /\ eqHist = <<>>
    /\ resetAt = 0
    /\ lastUpdate = NoUpdate

InitRM == InitRMWith(DailyLossLimitValues)

\* The largest equity seen since start, from the history.
RECURSIVE SeqMax(_)
SeqMax(q) == IF q = <<>> THEN 0
             ELSE LET m == SeqMax(Tail(q)) IN IF Head(q) > m THEN Head(q) ELSE m

HistPeak(h) == LET m == SeqMax(h) IN IF m > InitialEquity THEN m ELSE InitialEquity

\* The equity at the last reset_daily, from the history (the initial equity if
\* there was no reset or no update before it).
HistDailyStart(h, at) == IF at = 0 THEN InitialEquity ELSE h[at]

\* update_equity with `self._peak_equity = new_equity` on every call.
PeakFollowsEquity(peak, e) == e

\* update_equity: `if self._peak_equity is None or new_equity >
\* self._peak_equity: self._peak_equity = new_equity` (start has set the peak).
NewPeak(peak, e) == IF e > peak THEN e ELSE peak

\* RiskManager.update_equity: current, peak, then _check_drawdown and
\* _check_daily_loss, each of which triggers the kill switch on a breach.
UpdateEquity(e) ==
    /\ Len(eqHist) < MaxUpdates
    /\ LET peak == NewPeak(rmPeak, e)
           trig == \/ rmTriggered
                   \/ Breach(peak, e, rmMaxDrawdownPct)
                   \/ Breach(rmDailyStart, e, rmDailyLossLimitPct)
       IN /\ rmCurrent' = e
          /\ rmPeak' = peak
          /\ rmTriggered' = trig
          /\ eqHist' = Append(eqHist, e)
          /\ lastUpdate' = [seen |-> TRUE, before |-> rmTriggered, after |-> trig,
                            peak |-> HistPeak(Append(eqHist, e)),
                            dailyStart |-> HistDailyStart(eqHist, resetAt),
                            current |-> e]
    /\ UNCHANGED <<rmMaxDrawdownPct, rmDailyLossLimitPct, rmDailyStart, resetAt>>
    /\ RMOnly

\* RiskManager.reset_daily: daily_start <- current.
ResetDaily ==
    /\ resetAt # Len(eqHist)
    /\ rmDailyStart' = rmCurrent
    /\ resetAt' = Len(eqHist)
    /\ UNCHANGED <<rmMaxDrawdownPct, rmDailyLossLimitPct, rmPeak, rmCurrent,
                   rmTriggered, eqHist, lastUpdate>>
    /\ RMOnly

NextRM ==
    \/ \E e \in EquityValues : UpdateEquity(e)
    \/ ResetDaily

(***************************************************************************)
(* Position tracker                                                        *)
(*                                                                         *)
(* Quantities and prices are integers here; the average entry price, which *)
(* the code obtains by a Decimal division, is kept as a reduced fraction   *)
(* <<numerator, denominator>>, and so is the realised P&L.                 *)
(***************************************************************************)

\* Bound on the number of fills processed.
MaxFills == 4

Symbols == {"BTCUSDT", "ETHUSDT"}
Sides == {"buy", "sell"}
FillQuantities == {1, 2}
FillPrices == {100, 110}

NoPosition == [side |-> "none", quantity |-> 0, avg |-> <<0, 1>>,
               current |-> 0, realized |-> <<0, 1>>]

RECURSIVE GCD(_, _)
GCD(a, b) == IF b = 0 THEN a ELSE GCD(b, a % b)

Abs(x) == IF x < 0 THEN -x ELSE x

\* The fraction n/d (d > 0) in lowest terms.
Frac(n, d) == LET g == GCD(Abs(n), d) IN <<n \div g, d \div g>>

FracAdd(x, y) == Frac(x[1] * y[2] + y[1] * x[2], x[2] * y[2])

\* _calculate_realized_pnl / _calculate_realized_pnl_partial:
\* (fill.price - avg) * q for a long, (avg - fill.price) * q for a short.
RealizedPnl(pos, price, q) ==
    LET diff == price * pos.avg[2] - pos.avg[1]
    IN Frac((IF pos.side = "buy" THEN diff ELSE -diff) * q, pos.avg[2])

\* Opposite-side fill at least as large as the position: the position is
\* closed and removed from _positions, whatever the fill's excess quantity.
CloseWithoutExcess(pos, fill) == NoPosition

\* PositionTracker._process_fill: the position of the fill's symbol afterwards.
PositionAfterFill(pos, fill) ==
    IF pos = NoPosition
    THEN [side |-> fill.side, quantity |-> fill.quantity, avg |-> <<fill.price, 1>>,
          current |-> fill.price, realized |-> <<0, 1>>]
    ELSE IF fill.side = pos.side
    THEN [pos EXCEPT !.avg = Frac(pos.quantity * pos.avg[1]
                                      + fill.quantity * fill.price * pos.avg[2],
                                  pos.avg[2] * (pos.quantity + fill.quantity)),
                     !.quantity = pos.quantity + fill.quantity,
                     !.current = fill.price]
    ELSE IF fill.quantity >= pos.quantity
    THEN CloseWithoutExcess(pos, fill)
    ELSE [pos EXCEPT !.realized = FracAdd(pos.realized,
                                          RealizedPnl(pos, fill.price, fill.quantity)),
                     !.quantity = pos.quantity - fill.quantity,
                     !.current = fill.price]

SignedFill(fill) == IF fill.side = "buy" THEN fill.quantity ELSE -fill.quantity

\* A close that realises the P&L on the fill's quantity, whatever was open
\* (variant for comparison).
RealizedOnFillQuantity(pos, fill) ==
    IF pos = NoPosition \/ fill.side = pos.side THEN <<0, 1>>
    ELSE RealizedPnl(pos, fill.price, fill.quantity)

\* _process_fill: the realized_pnl the fill adds to the position object, on the
\* open quantity when the fill closes it, on the fill's quantity otherwise.
RealizedByFill(pos, fill) ==
    IF pos = NoPosition \/ fill.side = pos.side THEN <<0, 1>>
    ELSE IF fill.quantity >= pos.quantity
    THEN RealizedPnl(pos, fill.price, pos.quantity)
    ELSE RealizedPnl(pos, fill.price, fill.quantity)

\* A position without its current price (which update_price changes, not fills).
Tracked(pos) == [side |-> pos.side, quantity |-> pos.quantity, avg |-> pos.avg,
                 realized |-> pos.realized]

NoFillSeen == [seen |-> FALSE, fill |-> [symbol |-> "", side |-> "none", quantity |-> 0,
                                         price |-> 0],
               before |-> [s \in Symbols |-> Tracked(NoPosition)],
               realized |-> <<0, 1>>]

InitPT ==
    /\ ptLast = NoFillSeen
    /\ ptPositions = [s \in Symbols |-> NoPosition]
    /\ ptNet = [s \in Symbols |-> 0]
    /\ ptFills = 0

\* PositionTracker._on_fill_message -> _process_fill.
ProcessFill(fill) ==
    /\ ptFills < MaxFills
    /\ ptPositions' = [ptPositions EXCEPT
                         ![fill.symbol] = PositionAfterFill(ptPositions[fill.symbol], fill)]
    /\ ptNet' = [ptNet EXCEPT ![fill.symbol] = ptNet[fill.symbol] + SignedFill(fill)]
    /\ ptFills' = ptFills + 1
    /\ ptLast' = [seen |-> TRUE, fill |-> fill,
                  before |-> [s \in Symbols |-> Tracked(ptPositions[s])],
                  realized |-> RealizedByFill(ptPositions[fill.symbol], fill)]
    /\ PTOnly

\* PositionTracker.update_price: the current price of a tracked position.
UpdatePrice(s, price) ==
    /\ ptPositions[s] # NoPosition
    /\ ptPositions[s].current # price
    /\ ptPositions' = [ptPositions EXCEPT ![s].current = price]
    /\ UNCHANGED <<ptNet, ptFills, ptLast>>
    /\ PTOnly

NextPT ==
    \/ \E s \in Symbols, side \in Sides, q \in FillQuantities, price \in FillPrices :
          ProcessFill([symbol |-> s, side |-> side, quantity |-> q, price |-> price])
    \/ \E s \in Symbols, price \in FillPrices : UpdatePrice(s, price)

(***************************************************************************)
(* Fill simulation (shared/fill_logic.py) and the execution adapters       *)
(*                                                                         *)
(* Prices are integers in units of 1/2000 of the quote currency, and the   *)
(* prices fed in are multiples of 20000, so that base * bps * variation /  *)
(* 10000 is exact for the three markets' slippage settings.                *)
(*                                                                         *)
(* `random` is a small congruential generator: seed(k) sets its state, each*)
(* draw advances it and yields 0.0 or 0.5 (RngHalf counts halves).  What   *)
(* the model keeps of the Mersenne Twister is that the draws are a function*)
(* of the state, that the state is process-wide, and that seeding resets it.*)
(***************************************************************************)

Markets == {"crypto", "kr", "us"}
OrderTypes == {"market", "limit", "stop", "stop_limit"}

\* FillLogicSettings.get_slippage_bps (defaults).
SlippageBps(market) ==
    CASE market = "crypto" -> 10
      [] market = "kr" -> 5
      [] market = "us" -> 3

\* Fee rate per 100000 of notional in calculate_commission.
FeeRate(market) ==
    CASE market = "crypto" -> 100
      [] market = "kr" -> 15
      [] market = "us" -> 10

\* settings.fill_logic.min_latency_ms: the default 50 and the smallest values.
MinLatencyValues == {0, 1, 50}

\* Market and limit prices (0 as an order price: None, no limit price).
MarketPrices == {0, 20000, 40000}
OrderPrices == {0, 20000, 40000}

\* random_seed arguments: <<>> is None.
SeedOptions == {<<>>, <<42>>}

\* States `random` may be in when the process starts (seeded from the OS).
RngStartValues == {0, 5}

RngSeed(k) == k % 8
RngNext(s) == (5 * s + 3) % 8
RngHalf(s) == s \div 4

Max(a, b) == IF a > b THEN a ELSE b
Min(a, b) == IF a < b THEN a ELSE b

\* simulate_fill: the base price of the order.
BasePrice(order, marketPrice) ==
    IF order.type = "market" THEN marketPrice
    ELSE IF order.type = "limit" /\ order.price # 0
    THEN IF order.side = "buy" THEN Min(order.price, marketPrice)
         ELSE Max(order.price, marketPrice)
    ELSE marketPrice

\* calculate_slippage: variation = uniform(0.5, 1.5), here half/2 + 0.5;
\* actual_bps = base_bps * variation (kept in half basis points);
\* adjustment = base_price * actual_bps / 10000.
SlippageHalfBps(market, half) == SlippageBps(market) * (1 + half)

ExecutedPrice(side, base, halfBps) ==
    IF side = "buy" THEN base + (base * halfBps) \div 20000
    ELSE base - (base * halfBps) \div 20000

\* calculate_latency_ms: max(int(min_latency * (1 + jitter)), 1).
LatencyMs(minLatency, half) == Max((minLatency * (2 + half)) \div 2, 1)

\* calculate_commission: quantity * price * rate (numerator over 100000).
Commission(market, quantity, price) == quantity * price * FeeRate(market)

\* get_fill_simulator(random_seed): a new FillSimulator, which seeds `random`,
\* whenever a seed is given; the state of `random` afterwards.
SimulatorRng(seedOption, s) ==
    IF seedOption = <<>> THEN s ELSE RngSeed(seedOption[1])

\* FillSimulator.simulate_fill from `random` state s: the Fill and the state of
\* `random` after the two draws (slippage variation, then latency jitter).
SimulateFill(s, order, marketPrice, minLatency) ==
    LET s1 == RngNext(s)
        s2 == RngNext(s1)
        base == BasePrice(order, marketPrice)
        halfBps == SlippageHalfBps(order.market, RngHalf(s1))
        price == ExecutedPrice(order.side, base, halfBps)
    IN [seen |-> TRUE, source |-> "simulator", side |-> order.side,
        type |-> order.type, base |-> base, price |-> price,
        slippage |-> halfBps, latency |-> LatencyMs(minLatency, RngHalf(s2)),
        commission |-> Commission(order.market, order.quantity, price),
        rng |-> s2]

NoFill == [seen |-> FALSE, source |-> "none", side |-> "buy", type |-> "market",
           base |-> 0, price |-> 0, slippage |-> 0, latency |-> 0,
           commission |-> 0, rng |-> 0]

Orders == [market : Markets, side : Sides, type : OrderTypes,
           price : OrderPrices, quantity : {1}]

InitFSWith(starts, latencies) ==
    /\ rng \in starts
    /\ simExists = FALSE
    /\ fsMinLatency \in latencies
    /\ lastFill = NoFill

InitFS == InitFSWith(RngStartValues, MinLatencyValues)

\* BrokerStub._execute_fill: no fill without a positive price; otherwise
\* get_fill_simulator(self._random_seed).simulate_fill(order, market_price).
StubExecuteFill(seedOption, order, marketPrice) ==
    /\ marketPrice > 0
    /\ LET f == SimulateFill(SimulatorRng(seedOption, rng), order, marketPrice,
                             fsMinLatency)
       IN /\ lastFill' = f
          /\ rng' = f.rng
    /\ simExists' = TRUE
    /\ UNCHANGED fsMinLatency
    /\ FSOnly

\* fill_logic.simulate_fill (module function): the default simulator, no seed.
SimulateFillDirect(order, marketPrice) ==
    /\ LET f == SimulateFill(rng, order, marketPrice, fsMinLatency)
       IN /\ lastFill' = f
          /\ rng' = f.rng
    /\ simExists' = TRUE
    /\ UNCHANGED fsMinLatency
    /\ FSOnly

\* A Fill built by a live adapter from an exchange report: slippage_bps = 0 and
\* latency_ms = 0 are written into it.
AdapterFill(source, side, price) ==
    [seen |-> TRUE, source |-> source, side |-> side, type |-> "market",
     base |-> price, price |-> price, slippage |-> 0, latency |-> 0,
     commission |-> 0, rng |-> rng]

\* BinanceBroker._handle_execution_report (a TRADE execution report).
BinanceExecutionReport(side, price) ==
    /\ lastFill' = AdapterFill("binance", side, price)
    /\ UNCHANGED <<rng, simExists, fsMinLatency>>
    /\ FSOnly

\* KiwoomBroker fill callback.
KiwoomFill(side, price) ==
    /\ lastFill' = AdapterFill("kiwoom", side, price)
    /\ UNCHANGED <<rng, simExists, fsMinLatency>>
    /\ FSOnly

NextFS ==
    \/ \E seedOption \in SeedOptions, order \in Orders, marketPrice \in MarketPrices :
          StubExecuteFill(seedOption, order, marketPrice)
    \/ \E order \in Orders, marketPrice \in MarketPrices :
          SimulateFillDirect(order, marketPrice)
    \/ \E side \in Sides, price \in MarketPrices : BinanceExecutionReport(side, price)
    \/ \E side \in Sides, price \in MarketPrices : KiwoomFill(side, price)

(***************************************************************************)
(* Bar engine (backtest/engine.py), signal engine, strategy loader and the *)
(* turtle_breakout strategy                                                *)
(*                                                                         *)
(* One process holds the strategy cache, the `random` module and up to two *)
(* BacktestEngine objects with the same configuration (crypto, one symbol, *)
(* initial capital 100000, seed 42).  run() is one synchronous call and is *)
(* one action; what it does bar by bar is the operator CandleStep, folded  *)
(* over the bars.  A bar carries high, low and close in the quote currency;*)
(* its index in the run stands for its (daily) timestamp.  Prices and money*)
(* inside the engine are in units of 1/2000 of the currency, which makes   *)
(* the slippage adjustment and, for the closes used, the quantity          *)
(* 10000 / close exact.  Quotients the code leaves as Decimals (pnl_pct,   *)
(* drawdown, return) are reduced fractions.  daily_returns and the Sharpe  *)
(* ratio, functions of the equity curve, are left out of the result.       *)
(***************************************************************************)

\* Bounds: run() calls per process, bars after the warm-up bars.
MaxRuns == 2
MaxTail == 2

\* Strategy._lookback_entry / _lookback_exit (the deques' maxlen).
LookbackEntry == 20
LookbackExit == 10

\* BacktestConfig.initial_capital (100000) and random_seed.
InitialCapital == 200000000
ConfigSeed == 42

Engines == {1, 2}

FlatBar == [high |-> 100, low |-> 100, close |-> 100]
UpBar == [high |-> 125, low |-> 100, close |-> 125]
DownBar == [high |-> 100, low |-> 80, close |-> 80]
BarSet == {UpBar, DownBar}

\* The bars every run starts with: one less than the entry lookback.
Warmup == [i \in 1..(LookbackEntry - 1) |-> FlatBar]

Tails == UNION {[1..n -> BarSet] : n \in 0..MaxTail}
OrderedInputs == {Warmup \o tail : tail \in Tails}

\* A bar sequence with explicit timestamps: those of the last two bars swapped.
LastTwoSwapped(bars) ==
    [k \in 1..Len(bars) |->
        [high |-> bars[k].high, low |-> bars[k].low, close |-> bars[k].close,
         ts |-> IF k = Len(bars) THEN k - 1 ELSE IF k = Len(bars) - 1 THEN k + 1 ELSE k]]

\* Bar streams that are not in timestamp order.
UnorderedInputs == {LastTwoSwapped(Warmup \o tail) : tail \in [1..2 -> BarSet]}

RunInputs == OrderedInputs \cup UnorderedInputs

\* candle.timestamp (in days) of bar k: its position in the stream unless the bar
\* carries a timestamp.
TimeOf(bars, k) == IF "ts" \in DOMAIN bars[k] THEN bars[k].ts ELSE k

\* A close in engine units.
Units(price) == price * 2000

\* ---- turtle_breakout.Strategy ----

\* Strategy._state without an entry for the symbol.
NoSymbolState == [highs |-> <<>>, lows |-> <<>>, inPosition |-> FALSE]

\* deque(maxlen = n).append(x)
Push(q, x, n) == IF Len(q) < n THEN Append(q, x) ELSE Append(Tail(q), x)

Front(q) == SubSeq(q, 1, Len(q) - 1)

RECURSIVE SeqMin(_)
SeqMin(q) == IF Len(q) = 1 THEN Head(q)
             ELSE LET m == SeqMin(Tail(q)) IN IF Head(q) < m THEN Head(q) ELSE m

\* A strategy whose initialize() leaves _state as it is (variant for comparison).
StrategyKeepsState(st) == st

\* Strategy.initialize and Strategy.reset: self._state.clear().
StrategyInitialize(st) == NoSymbolState

StrategyReset(st) == NoSymbolState

\* Strategy.on_candle: the state afterwards and the signal ("none" if no signal).
OnCandle(st, candle) ==
    LET highs == Push(st.highs, candle.high, LookbackEntry)
        lows == Push(st.lows, candle.low, LookbackExit)
        st1 == [st EXCEPT !.highs = highs, !.lows = lows]
    IN IF Len(highs) < LookbackEntry
       THEN [strat |-> st1, signal |-> "none"]
       ELSE LET entryHigh == SeqMax(Front(highs))
                exitLow == SeqMin(Front(lows))
            IN IF ~st.inPosition
               THEN IF candle.close > entryHigh
                    THEN [strat |-> [st1 EXCEPT !.inPosition = TRUE],
                          signal |-> "enter_long"]
                    ELSE [strat |-> st1, signal |-> "none"]
               ELSE IF candle.close < exitLow
                    THEN [strat |-> [st1 EXCEPT !.inPosition = FALSE],
                          signal |-> "exit_long"]
                    ELSE [strat |-> st1, signal |-> "none"]

\* ---- BacktestEngine ----

\* BacktestEngine.__init__ (and the fields _reset restores).
NewEngine == [created |-> TRUE, hasStrategy |-> FALSE, sigTracked |-> <<>>,
              currentTime |-> 0, positions |-> <<>>, trades |-> <<>>,
              equityCurve |-> <<>>, peak |-> InitialCapital, maxDrawdown |-> <<0, 1>>,
              fills |-> 0, fillDraws |-> <<>>]

NoEngine == [NewEngine EXCEPT !.created = FALSE]

\* a/b < c/d for a, c >= 0 and b, d > 0, without forming the products.
RECURSIVE FracLess(_, _, _, _)
FracLess(a, b, c, d) ==
    LET qa == a \div b
        qc == c \div d
        ra == a % b
        rc == c % d
    IN IF qa # qc THEN qa < qc
       ELSE IF rc = 0 THEN FALSE
       ELSE IF ra = 0 THEN TRUE
       ELSE FracLess(d, rc, b, ra)

RECURSIVE SumPnl(_)
SumPnl(trades) == IF trades = <<>> THEN 0 ELSE Head(trades).pnl + SumPnl(Tail(trades))

RECURSIVE SumUnrealized(_)
SumUnrealized(positions) ==
    IF positions = <<>> THEN 0
    ELSE Head(positions).unrealized + SumUnrealized(Tail(positions))

\* P&L of a position at a price.
PositionPnl(pos, price) ==
    IF pos.side = "buy" THEN (price - pos.avg) * pos.quantity
    ELSE (pos.avg - price) * pos.quantity

\* _process_candle, first part: current_price and unrealized P&L of the symbol's
\* position.
MarkPositions(positions, close) ==
    [i \in 1..Len(positions) |->
        [positions[i] EXCEPT !.current = Units(close),
                             !.unrealized = PositionPnl(positions[i], Units(close))]]

\* The positions that _close_all_positions leaves in self._positions: it appends
\* the trades and removes nothing.
AfterForceClose(positions) == positions

\* A mark of the account that leaves the open positions out (variant for
\* comparison).
CalculateEquityRealizedOnly(eng) == InitialCapital + SumPnl(eng.trades)

\* _calculate_equity: initial capital + P&L of the trades + unrealised P&L of
\* the positions in self._positions.
CalculateEquity(eng) ==
    InitialCapital + SumPnl(eng.trades) + SumUnrealized(eng.positions)

\* A fill priced at the next bar's close (variant for comparison).
FillMarketPriceNextBar(bars, k) ==
    Units(bars[IF k < Len(bars) THEN k + 1 ELSE k].close)

\* The price the simulated fill of bar k starts from: that bar's close.
FillMarketPrice(bars, k) == Units(bars[k].close)

\* get_fill_simulator(config.random_seed).simulate_fill(order, close) of a market
\* order in the engine.
EngineFill(s, side, quantity, marketPrice) ==
    SimulateFill(SimulatorRng(<<ConfigSeed>>, s),
                 [market |-> "crypto", side |-> side, type |-> "market",
                  price |-> 0, quantity |-> quantity],
                 marketPrice, fsMinLatency)

\* What identifies the Position object a dictionary entry refers to.
PositionRef(pos) == [side |-> pos.side, quantity |-> pos.quantity, avg |-> pos.avg,
                     openedAt |-> pos.openedAt]

\* update_position that stores the position whether or not it is closed.
UpdatePositionIgnoresClose(tracked, pos, isOpen) == <<PositionRef(pos)>>

\* SignalGenerationEngine.update_position(position): the entry of the
\* position's symbol in its _positions is set to the position if it is open
\* (closed_at is None) and removed otherwise.
UpdatePosition(tracked, pos, isOpen) ==
    IF isOpen THEN <<PositionRef(pos)>> ELSE <<>>

\* History: the state of `random` from which a fill of the engine draws.
DrawnFrom(s) == SimulatorRng(<<ConfigSeed>>, s)

\* _open_position: 10% of the initial capital at the close, filled with slippage.
OpenPosition(rs, bars, k, side) ==
    LET quantity == (InitialCapital \div 10) \div Units(bars[k].close)
        f == EngineFill(rs.rng, side, quantity, FillMarketPrice(bars, k))
        pos == [side |-> side, quantity |-> quantity, avg |-> f.price,
                current |-> f.price, unrealized |-> 0, openedAt |-> TimeOf(bars, k)]
    IN [rs EXCEPT !.rng = f.rng, !.sim = TRUE,
                  !.eng.positions = Append(rs.eng.positions, pos),
                  !.eng.fills = rs.eng.fills + 1,
                  !.eng.fillDraws = Append(rs.eng.fillDraws, DrawnFrom(rs.rng)),
                  !.eng.sigTracked = UpdatePosition(rs.eng.sigTracked, pos, TRUE)]

\* _close_position: exit fill, trade record, position removed.
ClosePosition(rs, bars, k) ==
    LET pos == rs.eng.positions[1]
        exitSide == IF pos.side = "buy" THEN "sell" ELSE "buy"
        f == EngineFill(rs.rng, exitSide, pos.quantity, FillMarketPrice(bars, k))
        pnl == PositionPnl(pos, f.price)
        trade == [side |-> pos.side, entryTime |-> pos.openedAt,
                  exitTime |-> TimeOf(bars, k),
                  entryPrice |-> pos.avg, exitPrice |-> f.price,
                  quantity |-> pos.quantity, pnl |-> pnl,
                  pnlPct |-> Frac(pnl, pos.avg * pos.quantity),
                  holdingDays |-> Max(1, TimeOf(bars, k) - pos.openedAt)]
    IN [rs EXCEPT !.rng = f.rng, !.sim = TRUE,
                  !.eng.trades = Append(rs.eng.trades, trade),
                  !.eng.positions = <<>>,
                  !.eng.fills = rs.eng.fills + 1,
                  !.eng.fillDraws = Append(rs.eng.fillDraws, DrawnFrom(rs.rng)),
                  !.eng.sigTracked = UpdatePosition(rs.eng.sigTracked, pos, FALSE)]

\* _process_signal with the guard of the entries left out: an entry opens a
\* position whatever is open (variant for comparison).
ProcessEngineSignalUnguarded(rs, bars, k, signal) ==
    IF signal = "enter_long" THEN OpenPosition(rs, bars, k, "buy")
    ELSE IF signal = "enter_short" THEN OpenPosition(rs, bars, k, "sell")
    ELSE IF signal \in {"exit_long", "exit_short"} /\ rs.eng.positions # <<>>
    THEN ClosePosition(rs, bars, k)
    ELSE rs

\* _process_signal; rs.eng.positions is self._positions.get(symbol), empty for None.
ProcessEngineSignal(rs, bars, k, signal) ==
    IF signal = "enter_long"
    THEN IF rs.eng.positions = <<>> THEN OpenPosition(rs, bars, k, "buy") ELSE rs
    ELSE IF signal = "exit_long"
    THEN IF rs.eng.positions # <<>> /\ rs.eng.positions[1].side = "buy"
         THEN ClosePosition(rs, bars, k) ELSE rs
    ELSE IF signal = "enter_short"
    THEN IF rs.eng.positions = <<>> THEN OpenPosition(rs, bars, k, "sell") ELSE rs
    ELSE IF signal = "exit_short"
    THEN IF rs.eng.positions # <<>> /\ rs.eng.positions[1].side = "sell"
         THEN ClosePosition(rs, bars, k) ELSE rs
    ELSE rs

\* SignalGenerationEngine.process_candle_sync: on the engine's first candle the
\* strategy is fetched from the cache and initialize() is called.
LoadStrategy(rs) ==
    IF rs.eng.hasStrategy THEN rs
    ELSE [rs EXCEPT !.eng.hasStrategy = TRUE, !.stratLoaded = TRUE,
                    !.stratInit = TRUE, !.strat = StrategyInitialize(rs.strat)]

\* The only element of a one-element set (the element is computed once).
The(S) == CHOOSE x \in S : TRUE

\* _process_candle, up to the strategy call: time, position mark, strategy fetch.
BeforeStrategy(rs, bars, k) ==
    LoadStrategy([rs EXCEPT !.eng.currentTime = TimeOf(bars, k),
                            !.eng.positions = MarkPositions(rs.eng.positions,
                                                            bars[k].close)])

\* _process_candle: strategy call and the processing of its signal.
StrategyAndSignal(rs, bars, k) ==
    The({[rs |-> ProcessEngineSignal([rs EXCEPT !.strat = out.strat], bars, k,
                                     out.signal),
          signal |-> out.signal] : out \in {OnCandle(rs.strat, bars[k])}})

\* _process_candle, last part: equity-curve entry, peak and maximum drawdown.
RecordEquity(rs, time, signal) ==
    The({[rs EXCEPT !.eng.equityCurve = Append(rs.eng.equityCurve, <<time, equity>>),
                    !.eng.peak = Max(rs.eng.peak, equity),
                    !.eng.maxDrawdown =
                        The({IF FracLess(rs.eng.maxDrawdown[1], rs.eng.maxDrawdown[2],
                                         drawdown[1], drawdown[2])
                             THEN drawdown ELSE rs.eng.maxDrawdown :
                             drawdown \in {Frac(Max(rs.eng.peak, equity) - equity,
                                                Max(rs.eng.peak, equity))}}),
                    !.signals = Append(rs.signals, signal),
                    !.posTrace = Append(rs.posTrace, rs.eng.positions),
                    !.sigTrace = Append(rs.sigTrace, rs.eng.sigTracked),
                    !.tradeTrace = Append(rs.tradeTrace, Len(rs.eng.trades))] :
         equity \in {CalculateEquity(rs.eng)}})

\* _process_candle for bar k of the run.
CandleStep(rs, bars, k) ==
    The({RecordEquity(after.rs, TimeOf(bars, k), after.signal) :
         after \in {StrategyAndSignal(before, bars, k) :
                    before \in {BeforeStrategy(rs, bars, k)}}})

\* for candle in candles: self._process_candle(candle)
RECURSIVE ProcessCandles(_, _, _)
ProcessCandles(rs, bars, k) ==
    IF k > Len(bars) THEN rs
    ELSE The({ProcessCandles(next, bars, k + 1) : next \in {CandleStep(rs, bars, k)}})

\* _close_all_positions: one synthetic trade per position at its current price.
SyntheticTrades(eng) ==
    [i \in 1..Len(eng.positions) |->
        LET pos == eng.positions[i]
            price == IF pos.current # 0 THEN pos.current ELSE pos.avg
            pnl == PositionPnl(pos, price)
        IN [side |-> pos.side, entryTime |-> pos.openedAt,
            exitTime |-> IF eng.currentTime # 0 THEN eng.currentTime
                         ELSE pos.openedAt,
            entryPrice |-> pos.avg, exitPrice |-> price,
            quantity |-> pos.quantity, pnl |-> pnl,
            pnlPct |-> Frac(pnl, pos.avg * pos.quantity),
            holdingDays |-> 1]]

CloseAllPositions(eng) ==
    [eng EXCEPT !.trades = eng.trades \o SyntheticTrades(eng),
                !.positions = AfterForceClose(eng.positions)]

RECURSIVE SumWhere(_, _)
SumWhere(trades, winning) ==
    IF trades = <<>> THEN 0
    ELSE (IF (Head(trades).pnl > 0) = winning THEN Head(trades).pnl ELSE 0)
         + SumWhere(Tail(trades), winning)

\* _calculate_results.
CalculateResults(eng) ==
    LET winners == {i \in 1..Len(eng.trades) : eng.trades[i].pnl > 0}
        losers == {i \in 1..Len(eng.trades) : eng.trades[i].pnl <= 0}
        grossProfit == SumWhere(eng.trades, TRUE)
        grossLoss == IF losers # {} THEN Abs(SumWhere(eng.trades, FALSE)) ELSE 20
        finalEquity == CalculateEquity(eng)
        empty == eng.trades = <<>>
    IN [trades |-> eng.trades,
        equityCurve |-> eng.equityCurve,
        maxDrawdown |-> eng.maxDrawdown,
        totalTrades |-> Len(eng.trades),
        winningTrades |-> IF empty THEN 0 ELSE Cardinality(winners),
        losingTrades |-> IF empty THEN 0 ELSE Cardinality(losers),
        profitFactor |-> IF empty \/ grossLoss = 0 THEN <<0, 1>>
                         ELSE Frac(grossProfit, grossLoss),
        finalEquity |-> IF empty THEN InitialCapital ELSE finalEquity,
        totalReturn |-> IF empty THEN <<0, 1>>
                        ELSE Frac(finalEquity - InitialCapital, InitialCapital)]

\* _reset of an engine, with SignalGenerationEngine.reset: the strategy is reset
\* only if this engine has already fetched it.
ResetRun(e) ==
    [strat |-> IF engines[e].hasStrategy THEN StrategyReset(strat) ELSE strat,
     stratLoaded |-> stratLoaded,
     stratInit |-> stratInit,
     rng |-> rng,
     sim |-> simExists,
     eng |-> [NewEngine EXCEPT !.hasStrategy = engines[e].hasStrategy],
     signals |-> <<>>,
     posTrace |-> <<>>,
     sigTrace |-> <<>>,
     tradeTrace |-> <<>>]

\* The state a run starts from in a process that has run nothing yet.
FreshRun ==
    [strat |-> NoSymbolState, stratLoaded |-> FALSE, stratInit |-> FALSE,
     rng |-> 0, sim |-> FALSE, eng |-> NewEngine, signals |-> <<>>,
     posTrace |-> <<>>, sigTrace |-> <<>>, tradeTrace |-> <<>>]

\* What a run() leaves: per-bar record, engine and result.
RunRecord(e, bars, rs) ==
    The({[done |-> TRUE, engine |-> e, bars |-> bars, signals |-> rs.signals,
          posTrace |-> rs.posTrace, sigTrace |-> rs.sigTrace,
          tradeTrace |-> rs.tradeTrace, eng |-> eng,
          result |-> CalculateResults(eng)] :
         eng \in {CloseAllPositions(rs.eng)}})

NoRun == [done |-> FALSE, engine |-> 0, bars |-> <<>>, signals |-> <<>>,
          posTrace |-> <<>>, sigTrace |-> <<>>, tradeTrace |-> <<>>, eng |-> NoEngine,
          result |-> CalculateResults(NoEngine)]

\* _calculate_results builds BacktestResult(trades = self._trades, equity_curve =
\* self._equity_curve): the result holds the engine's own list objects, so what an
\* observer reads from a result is what those lists of its engine hold now.
ResultListsNow(eng) == [trades |-> eng.trades, equityCurve |-> eng.equityCurve]

InitBT ==
    /\ stratLoaded = FALSE
    /\ stratInit = FALSE
    /\ strat = NoSymbolState
    /\ engines = [e \in Engines |-> NoEngine]
    /\ lastRun = NoRun
    /\ nRuns = 0

\* BacktestEngine(config): engine 2 is only made after engine 1 (the two are
\* interchangeable).
CreateEngine(e) ==
    /\ ~engines[e].created
    /\ e = 1 \/ engines[1].created
    /\ engines' = [engines EXCEPT ![e] = NewEngine]
    /\ UNCHANGED <<stratLoaded, stratInit, strat, lastRun, nRuns, rng, simExists>>
    /\ BTOnly

\* BacktestEngine.run(candles): _reset, every candle, _close_all_positions,
\* _calculate_results.
Run(e, bars) ==
    /\ engines[e].created
    /\ nRuns < MaxRuns
    /\ \E start \in {ResetRun(e)} :
       \E rs \in {ProcessCandles(start, bars, 1)} :
       \E rec \in {RunRecord(e, bars, rs)} :
          /\ engines' = [engines EXCEPT ![e] = rec.eng]
          /\ strat' = rs.strat
          /\ stratLoaded' = rs.stratLoaded
          /\ stratInit' = rs.stratInit
          /\ rng' = rs.rng
          /\ simExists' = rs.sim
          /\ lastRun' = rec
    /\ nRuns' = nRuns + 1
    /\ BTOnly

NextBT ==
    \/ \E e \in Engines : CreateEngine(e)
    \/ \E e \in Engines, bars \in RunInputs : Run(e, bars)

(***************************************************************************)
(* One seeded FillSimulator among the simulators of a process              *)
(* (shared/fill_logic.py)                                                  *)
(*                                                                         *)
(* FillSimulator(random_seed = k) seeds the process-wide `random` module   *)
(* when it is constructed; simulate_fill of every simulator draws from that*)
(* module.  The tracked simulator is constructed with a seed and its calls *)
(* are recorded; other simulators are constructed and used in between.     *)
(***************************************************************************)

\* Bound: recorded simulate_fill calls of the tracked simulator.
MaxCalls == 2

\* Seeds of the tracked simulator.
TrackedSeeds == {42}

\* random_seed of the other simulators: None, the same seed, another seed.
OtherSeedOptions == {<<>>, <<42>>, <<7>>}

\* The orders given to the tracked simulator: crypto market orders of 1.
TrackedOrders == [market : {"crypto"}, side : Sides, type : {"market"},
                  price : {0}, quantity : {1}]

TrackedPrices == {20000, 40000}

NoSimulator == [created |-> FALSE, seed |-> 0]

InitSQ ==
    /\ simTracked = NoSimulator
    /\ simCalls = <<>>

\* FillSimulator(random_seed = seed): the tracked simulator.
CreateTracked(seed) ==
    /\ ~simTracked.created
    /\ simTracked' = [created |-> TRUE, seed |-> seed]
    /\ rng' = RngSeed(seed)
    /\ UNCHANGED <<simCalls, simExists>>
    /\ SQOnly

\* simulate_fill(order, market_price) of the tracked simulator.
TrackedFill(order, marketPrice) ==
    /\ simTracked.created
    /\ Len(simCalls) < MaxCalls
    /\ \E f \in {SimulateFill(rng, order, marketPrice, fsMinLatency)} :
          /\ simCalls' = Append(simCalls, [order |-> order, marketPrice |-> marketPrice,
                                           fill |-> f])
          /\ rng' = f.rng
    /\ UNCHANGED <<simTracked, simExists>>
    /\ SQOnly

\* get_fill_simulator(random_seed) or FillSimulator(random_seed) elsewhere in the
\* process.
OtherSimulator(seedOption) ==
    /\ rng' = SimulatorRng(seedOption, rng)
    /\ simExists' = TRUE
    /\ UNCHANGED <<simTracked, simCalls>>
    /\ SQOnly

\* simulate_fill of another simulator of the process.
OtherFill(order, marketPrice) ==
    /\ simExists
    /\ rng' = SimulateFill(rng, order, marketPrice, fsMinLatency).rng
    /\ UNCHANGED <<simTracked, simCalls, simExists>>
    /\ SQOnly

NextSQ ==
    \/ \E seed \in TrackedSeeds : CreateTracked(seed)
    \/ \E order \in TrackedOrders, marketPrice \in TrackedPrices :
          TrackedFill(order, marketPrice)
    \/ \E seedOption \in OtherSeedOptions : OtherSimulator(seedOption)
    \/ \E order \in TrackedOrders, marketPrice \in TrackedPrices :
          OtherFill(order, marketPrice)

(***************************************************************************)
(* V2 strategy registry and import sandbox                                 *)
(* (vibetrading_V2/strategy/registry.py, sandbox.py, core/errors.py)       *)
(*                                                                         *)
(* A module name is a sequence of tokens whose concatenation is the dotted *)
(* name, the dots being tokens of their own: "os.path" is <<"os", ".",     *)
(* "path">> and "osx" is <<"os", "x">>, so that str.startswith is the      *)
(* prefix relation on sequences.  A strategy file is what the loader can   *)
(* observe of it: whether it resolves, reads and parses, its import        *)
(* statements (top-level or nested), whether executing it raises, what it  *)
(* exports and the shape of the exported bundle.  One call is made per     *)
(* behaviour: load_strategy_bundle or validate_strategy_imports.           *)
(***************************************************************************)

\* Bound: import statements in a strategy file.
MaxImports == 2

\* DEFAULT_ALLOWED_IMPORT_PREFIXES
DefaultAllowedImportPrefixes ==
    {<<"vibetrading_V2", ".", "core">>,
     <<"vibetrading_V2", ".", "strategy", ".", "base">>,
     <<"vibetrading_V2", ".", "strategy", ".", "bundle">>,
     <<"__future__">>, <<"typing">>, <<"dataclasses">>, <<"math">>,
     <<"numpy">>, <<"pandas">>}

\* DEFAULT_DENIED_IMPORT_PREFIXES
DefaultDeniedImportPrefixes ==
    {<<"vibetrading_V2", ".", "runner">>, <<"vibetrading_V2", ".", "execution">>,
     <<"vibetrading_V2", ".", "data">>, <<"cli">>, <<"os">>, <<"pathlib">>,
     <<"io">>, <<"socket">>, <<"asyncio">>, <<"sqlalchemy">>, <<"psycopg">>,
     <<"redis">>, <<"nats">>, <<"requests">>, <<"httpx">>, <<"websockets">>,
     <<"aiohttp">>, <<"binance">>}

\* Module names the strategy files import: os, os.path, osx, requests, math,
\* maths, vibetrading_V2, vibetrading_V2.core.
ModuleNames ==
    {<<"os">>, <<"os", ".", "path">>, <<"os", "x">>, <<"requests">>, <<"math">>,
     <<"math", "s">>, <<"vibetrading_V2">>, <<"vibetrading_V2", ".", "core">>}

\* allowed_prefixes / denied_prefixes arguments of validate_strategy_imports: the
\* defaults, and an allow list that overlaps the deny list.
PrefixLists ==
    {[allowed |-> DefaultAllowedImportPrefixes, denied |-> DefaultDeniedImportPrefixes],
     [allowed |-> DefaultAllowedImportPrefixes \cup {<<"os">>},
      denied |-> DefaultDeniedImportPrefixes]}

DefaultLists ==
    [allowed |-> DefaultAllowedImportPrefixes, denied |-> DefaultDeniedImportPrefixes]

\* str.startswith
StartsWith(s, t) == Len(t) <= Len(s) /\ SubSeq(s, 1, Len(t)) = t

\* _matches_prefix
MatchesPrefix(moduleName, prefixes) ==
    \E prefix \in prefixes :
        moduleName = prefix \/ StartsWith(moduleName, prefix \o <<".">>)

\* Import statements: `import m` and `from m import x` (level 0), and
\* `from . import x` (level 1).
ImportStmts ==
    [kind : {"import", "from"}, level : {0}, module : ModuleNames, nested : BOOLEAN]
    \cup [kind : {"from"}, level : {1}, module : {<<"math">>}, nested : BOOLEAN]

\* The name _iter_imports records for an import statement.
ImportedName(stmt) ==
    IF stmt.kind = "from" /\ stmt.level > 0 THEN <<"relative(level=1)">>
    ELSE stmt.module

\* An _iter_imports that looks at the statements of the module body only
\* (variant for comparison).
IterImportsTopLevel(file) ==
    LET top == SelectSeq(file.imports, LAMBDA stmt : ~stmt.nested)
    IN [i \in 1..Len(top) |-> ImportedName(top[i])]

\* _iter_imports: ast.walk visits every node of the tree.
IterImports(file) ==
    [i \in 1..Len(file.imports) |-> ImportedName(file.imports[i])]

\* validate_strategy_imports: the exception raised, "none" if it returns.
ValidateStrategyImports(file, lists) ==
    IF ~file.readable \/ ~file.parses THEN "StrategySandboxError"
    ELSE LET names == IterImports(file)
             forbidden == {i \in 1..Len(names) : MatchesPrefix(names[i], lists.denied)}
             unsupported == {i \in 1..Len(names) :
                                /\ ~MatchesPrefix(names[i], lists.denied)
                                /\ ~MatchesPrefix(names[i], lists.allowed)}
         IN IF forbidden # {} \/ unsupported # {}
            THEN "StrategyImportViolationError"
            ELSE "none"

\* core/errors.py: the base class of each exception class.
ErrorBase(cls) ==
    CASE cls = "StrategyLoadError" -> "V2Error"
      [] cls = "StrategySandboxError" -> "V2Error"
      [] cls = "StrategyValidationError" -> "V2Error"
      [] cls = "StrategyImportViolationError" -> "StrategySandboxError"
      [] cls = "StrategySchemaError" -> "StrategyValidationError"
      [] cls = "V2Error" -> "Exception"
      [] OTHER -> "none"

\* isinstance(exception of class cls, target)
RECURSIVE IsInstance(_, _)
IsInstance(cls, target) ==
    IF cls = target THEN TRUE
    ELSE IF ErrorBase(cls) = "none" THEN FALSE
    ELSE IsInstance(ErrorBase(cls), target)

\* Classes of the values found in a bundle's overrides.
OverrideShapes == {"None", "ok", "other"}

\* _resolve_strategy_path
ResolveStrategyPath(file) == IF file.resolves THEN "none" ELSE "StrategyLoadError"

\* _load_module_from_path: exec_module runs the file's statements; whatever it
\* raises (a SyntaxError included) is wrapped in StrategyLoadError.
LoadModuleFromPath(file) ==
    IF ~file.readable \/ ~file.parses \/ file.execRaises THEN "StrategyLoadError"
    ELSE "none"

\* _extract_bundle
ExtractBundle(file) ==
    IF file.export = "none" \/ file.export = "notbundle" THEN "StrategyValidationError"
    ELSE "none"

\* _validate_bundle
ValidateBundle(bundle) ==
    IF bundle.universe = <<>> THEN "StrategySchemaError"
    ELSE IF bundle.requiredFields = <<>> THEN "StrategySchemaError"
    ELSE IF bundle.overrides.class = "None" THEN "none"
    ELSE IF bundle.overrides.class # "ok" THEN "StrategyValidationError"
    ELSE IF bundle.overrides.cost \notin {"None", "ok"} THEN "StrategyValidationError"
    ELSE IF bundle.overrides.risk \notin {"None", "ok"} THEN "StrategyValidationError"
    ELSE IF bundle.overrides.sizing \notin {"None", "ok"} THEN "StrategyValidationError"
    ELSE "none"

\* load_strategy_bundle with the module executed before the import check
\* (variant for comparison).
LoadStepsExecFirst ==
    <<"resolve", "load_module", "validate_imports", "extract_bundle", "validate_bundle">>

\* load_strategy_bundle: its calls, in order.
LoadSteps ==
    <<"resolve", "validate_imports", "load_module", "extract_bundle", "validate_bundle">>

StepError(step, file) ==
    CASE step = "resolve" -> ResolveStrategyPath(file)
      [] step = "validate_imports" -> ValidateStrategyImports(file, DefaultLists)
      [] step = "load_module" -> LoadModuleFromPath(file)
      [] step = "extract_bundle" -> ExtractBundle(file)
      [] step = "validate_bundle" -> ValidateBundle(file.bundle)

\* load_strategy_bundle from step i on: the steps entered and the exception that
\* ended the call ("none": the bundle was returned).
RECURSIVE LoadFrom(_, _, _)
LoadFrom(file, i, entered) ==
    IF i > Len(LoadSteps) THEN [done |-> TRUE, steps |-> entered, error |-> "none"]
    ELSE LET err == StepError(LoadSteps[i], file)
         IN IF err # "none"
            THEN [done |-> TRUE, steps |-> Append(entered, LoadSteps[i]), error |-> err]
            ELSE LoadFrom(file, i + 1, Append(entered, LoadSteps[i]))

LoadStrategyBundle(file) == LoadFrom(file, 1, <<>>)

NoCall == [done |-> FALSE, steps |-> <<>>, error |-> "none"]

\* ---- the calls made ----

GoodBundle ==
    [universe |-> <<"BTC-USD">>, requiredFields |-> <<"close">>,
     overrides |-> [class |-> "None", cost |-> "None", risk |-> "None",
                    sizing |-> "None"]]

ImportLists == UNION {[1..n -> ImportStmts] : n \in 0..MaxImports}

\* Files that differ in their imports and in whether they read and parse.
ImportFiles ==
    [resolves : {TRUE}, readable : BOOLEAN, parses : BOOLEAN, imports : ImportLists,
     execRaises : {FALSE}, export : {"BUNDLE"}, bundle : {GoodBundle}]

Bundles ==
    [universe : {<<>>, <<"BTC-USD">>}, requiredFields : {<<>>, <<"close">>},
     overrides : [class : {"None"}, cost : {"None"}, risk : {"None"}, sizing : {"None"}]
                 \cup [class : {"other"}, cost : {"None"}, risk : {"None"},
                       sizing : {"None"}]
                 \cup [class : {"ok"}, cost : OverrideShapes, risk : OverrideShapes,
                       sizing : OverrideShapes]]

\* Files with one allowed import that differ in what they export.
BundleFiles ==
    [resolves : BOOLEAN, readable : {TRUE}, parses : {TRUE},
     imports : {<<[kind |-> "from", level |-> 0,
                   module |-> <<"vibetrading_V2", ".", "core">>, nested |-> FALSE]>>},
     execRaises : BOOLEAN, export : {"get_bundle", "BUNDLE", "none", "notbundle"},
     bundle : Bundles]

RegInputs ==
    [op : {"load"}, file : ImportFiles \cup BundleFiles, lists : {DefaultLists}]
    \cup [op : {"validate"}, file : ImportFiles, lists : PrefixLists]

InitRGWith(inputs) ==
    /\ regInput \in inputs
    /\ regLast = NoCall

InitRG == InitRGWith(RegInputs)

\* load_strategy_bundle(strategy)
LoadStrategyBundleCall ==
    /\ ~regLast.done
    /\ regInput.op = "load"
    /\ regLast' = LoadStrategyBundle(regInput.file)
    /\ UNCHANGED regInput
    /\ RGOnly

\* validate_strategy_imports(path, allowed_prefixes = ..., denied_prefixes = ...)
ValidateStrategyImportsCall ==
    /\ ~regLast.done
    /\ regInput.op = "validate"
    /\ regLast' = [done |-> TRUE, steps |-> <<"validate_imports">>,
                   error |-> ValidateStrategyImports(regInput.file, regInput.lists)]
    /\ UNCHANGED regInput
    /\ RGOnly

NextRG ==
    \/ LoadStrategyBundleCall
    \/ ValidateStrategyImportsCall

(***************************************************************************)
(* V2 policy merge (vibetrading_V2/policies/merge.py, cost.py, risk.py,    *)
(* sizing.py)                                                              *)
(*                                                                         *)
(* An Optional value is a sequence: <<>> is None and <<v>> is the value v. *)
(* Policy values are in hundredths (commission_bps 5.0 is 500).  One merge *)
(* is made per behaviour.                                                  *)
(***************************************************************************)

\* default_cost_policy(), default_risk_policy(), default_sizing_policy()
DefaultPolicySet ==
    [cost |-> [commission_bps |-> 500, slippage_bps |-> 100, min_fee |-> 0],
     risk |-> [max_leverage |-> 100, max_position_notional |-> 10000000,
               max_drawdown |-> 20, kill_switch_dd |-> 30],
     sizing |-> [target_vol |-> 15, max_gross_exposure |-> 100, per_trade_risk |-> 1]]

\* Another PolicySet passed as defaults.
OtherPolicySet ==
    [cost |-> [commission_bps |-> 700, slippage_bps |-> 700, min_fee |-> 700],
     risk |-> [max_leverage |-> 700, max_position_notional |-> 700,
               max_drawdown |-> 700, kill_switch_dd |-> 700],
     sizing |-> [target_vol |-> 700, max_gross_exposure |-> 700, per_trade_risk |-> 700]]

PolicySets == {DefaultPolicySet, OtherPolicySet}

\* Values of an override field: None, 0.0, 2.0.
OverrideValues == {<<>>, <<0>>, <<200>>}

\* An Optional of the elements of S.
Optional(S) == {<<>>} \cup {<<x>> : x \in S}

CostOverrides ==
    [commission_bps : OverrideValues, slippage_bps : OverrideValues,
     min_fee : OverrideValues]

RiskOverrides ==
    [max_leverage : OverrideValues, max_position_notional : OverrideValues,
     max_drawdown : OverrideValues, kill_switch_dd : OverrideValues]

SizingOverrides ==
    [target_vol : OverrideValues, max_gross_exposure : OverrideValues,
     per_trade_risk : OverrideValues]

PolicyOverridesSet ==
    Optional([cost : Optional(CostOverrides), risk : Optional(RiskOverrides),
              sizing : Optional(SizingOverrides)])

\* A field that inherits the default whenever the override is falsy (variant for
\* comparison).
PickFieldTruthy(default, override) ==
    IF override = <<>> \/ override[1] = 0 THEN default ELSE override[1]

\* default if override.field is None else override.field
PickField(default, override) ==
    IF override = <<>> THEN default ELSE override[1]

\* merge_cost_override
MergeCostOverride(defaults, override) ==
    IF override = <<>> THEN defaults
    ELSE [commission_bps |-> PickField(defaults.commission_bps, override[1].commission_bps),
          slippage_bps |-> PickField(defaults.slippage_bps, override[1].slippage_bps),
          min_fee |-> PickField(defaults.min_fee, override[1].min_fee)]

\* merge_risk_override
MergeRiskOverride(defaults, override) ==
    IF override = <<>> THEN defaults
    ELSE [max_leverage |-> PickField(defaults.max_leverage, override[1].max_leverage),
          max_position_notional |-> PickField(defaults.max_position_notional,
                                              override[1].max_position_notional),
          max_drawdown |-> PickField(defaults.max_drawdown, override[1].max_drawdown),
          kill_switch_dd |-> PickField(defaults.kill_switch_dd,
                                       override[1].kill_switch_dd)]

\* merge_sizing_override
MergeSizingOverride(defaults, override) ==
    IF override = <<>> THEN defaults
    ELSE [target_vol |-> PickField(defaults.target_vol, override[1].target_vol),
          max_gross_exposure |-> PickField(defaults.max_gross_exposure,
                                           override[1].max_gross_exposure),
          per_trade_risk |-> PickField(defaults.per_trade_risk,
                                       override[1].per_trade_risk)]

\* merge_policy_overrides
MergePolicyOverrides(defaults, overrides) ==
    IF overrides = <<>> THEN defaults
    ELSE [cost |-> MergeCostOverride(defaults.cost, overrides[1].cost),
          risk |-> MergeRiskOverride(defaults.risk, overrides[1].risk),
          sizing |-> MergeSizingOverride(defaults.sizing, overrides[1].sizing)]

InitMGWith(defaultSets, overrideSet) ==
    /\ mergeDefaults \in defaultSets
    /\ mergeOverrides \in overrideSet
    /\ merged = <<>>

InitMG == InitMGWith(PolicySets, PolicyOverridesSet)

\* merged = merge_policy_overrides(defaults, overrides): the dataclasses are
\* frozen and `replace` builds new objects, so the arguments stay as they were.
MergeCall ==
    /\ merged = <<>>
    /\ merged' = <<MergePolicyOverrides(mergeDefaults, mergeOverrides)>>
    /\ UNCHANGED <<mergeDefaults, mergeOverrides>>
    /\ MGOnly

NextMG == MergeCall

(***************************************************************************)
(* V2 runner loop (vibetrading_V2/runner/runtime.py)                       *)
(*                                                                         *)
(* run_mode after the bundle is loaded, step by step: the strategy, the    *)
(* data source and the execution port are the caller's objects, so on_bar  *)
(* returns any of IntentLists, the data source has any number of bars up   *)
(* to MaxBars per symbol, and the strategy may or may not define on_fill   *)
(* and finalize.  runLog records the calls made on the strategy and on the *)
(* execution port, in order.                                               *)
(***************************************************************************)

\* Bound: bars the data source returns for a symbol.
MaxBars == 1

\* bundle.meta.universe
Universes == {<<"BTC-USD">>, <<"BTC-USD", "ETH-USD">>}

\* What on_bar returns: None (<<>>) or a list of order intents (by side).
IntentLists ==
    {<<>>, <<<<>>>>, <<<<"buy">>>>, <<<<"buy", "sell">>>>, <<<<"sell", "buy">>>>}

\* The order taken last from the list (variant for comparison).
TakeLastOrder(queue) == Len(queue)

\* for order in orders: the position of the order taken next.
TakeOrder(queue) == 1

\* Sequence q without its element at position i.
Without(q, i) == SubSeq(q, 1, i - 1) \o SubSeq(q, i + 1, Len(q))

\* ExecutionPort.execute(order): the fill of the order.
ExecuteIntent(symbol, side, n) == [symbol |-> symbol, side |-> side, seq |-> n]

NoResult == [returned |-> FALSE, barsProcessed |-> 0, ordersSubmitted |-> 0,
             fills |-> <<>>]

InitRNWith(universes, barCounts, flags) ==
    /\ runner \in [pc : {"start"}, universe : universes,
                   barCount : [{"BTC-USD", "ETH-USD"} -> barCounts],
                   hasOnFill : flags, hasFinalize : flags,
                   symbolIdx : {0}, barIdx : {0}, pending : {<<>>},
                   barsProcessed : {0}, ordersSubmitted : {0}, fills : {<<>>},
                   result : {NoResult}]
    /\ runLog = <<>>

InitRN == InitRNWith(Universes, 0..MaxBars, BOOLEAN)

\* run_mode, lines 60-68: bundle, policies, strategy instance, ports, counters.
RunModeStart ==
    /\ runner.pc = "start"
    /\ runner' = [runner EXCEPT !.pc = "symbols", !.symbolIdx = 1]
    /\ UNCHANGED runLog
    /\ RNOnly

\* for symbol in bundle.meta.universe: bars = data_source.get_bars(symbol)
RunModeNextSymbol ==
    /\ runner.pc = "symbols"
    /\ runner' = IF runner.symbolIdx <= Len(runner.universe)
                 THEN [runner EXCEPT !.pc = "bars", !.barIdx = 1]
                 ELSE [runner EXCEPT !.pc = "finalize"]
    /\ UNCHANGED runLog
    /\ RNOnly

\* for bar in bars: bars_processed += 1; orders = _iter_orders(strategy, bar)
RunModeNextBar(intents) ==
    /\ runner.pc = "bars"
    /\ LET symbol == runner.universe[runner.symbolIdx]
       IN IF runner.barIdx <= runner.barCount[symbol]
          THEN /\ runner' = [runner EXCEPT
                                !.pc = "orders",
                                !.barsProcessed = @ + 1,
                                !.pending = IF intents = <<>> THEN <<>> ELSE intents[1]]
               /\ runLog' = Append(runLog, [call |-> "on_bar", symbol |-> symbol,
                                            bar |-> runner.barIdx, intents |-> intents])
          ELSE /\ intents = <<>>
               /\ runner' = [runner EXCEPT !.pc = "symbols", !.symbolIdx = @ + 1]
               /\ UNCHANGED runLog
    /\ RNOnly

\* for order in orders: orders_submitted += 1; fill = execution.execute(order);
\* fills.append(fill); strategy.on_fill(fill) if the strategy has on_fill.
RunModeNextOrder ==
    /\ runner.pc = "orders"
    /\ IF runner.pending # <<>>
       THEN LET symbol == runner.universe[runner.symbolIdx]
                i == TakeOrder(runner.pending)
                fill == ExecuteIntent(symbol, runner.pending[i],
                                      runner.ordersSubmitted + 1)
                executed == Append(runLog, [call |-> "execute", symbol |-> symbol,
                                            bar |-> runner.barIdx,
                                            intents |-> <<<<runner.pending[i]>>>>])
            IN /\ runner' = [runner EXCEPT !.ordersSubmitted = @ + 1,
                                           !.fills = Append(@, fill),
                                           !.pending = Without(@, i)]
               /\ runLog' = IF runner.hasOnFill
                            THEN Append(executed,
                                        [call |-> "on_fill", symbol |-> symbol,
                                         bar |-> runner.barIdx,
                                         intents |-> <<<<runner.pending[i]>>>>])
                            ELSE executed
       ELSE /\ runner' = [runner EXCEPT !.pc = "bars", !.barIdx = @ + 1]
            /\ UNCHANGED runLog
    /\ RNOnly

\* strategy.finalize() if the strategy has finalize.
RunModeFinalize ==
    /\ runner.pc = "finalize"
    /\ runner' = [runner EXCEPT !.pc = "return"]
    /\ runLog' = IF runner.hasFinalize
                 THEN Append(runLog, [call |-> "finalize", symbol |-> "", bar |-> 0,
                                      intents |-> <<>>])
                 ELSE runLog
    /\ RNOnly

\* return RunnerResult(...)
RunModeReturn ==
    /\ runner.pc = "return"
    /\ runner' = [runner EXCEPT
                     !.pc = "done",
                     !.result = [returned |-> TRUE,
                                 barsProcessed |-> runner.barsProcessed,
                                 ordersSubmitted |-> runner.ordersSubmitted,
                                 fills |-> runner.fills]]
    /\ UNCHANGED runLog
    /\ RNOnly

NextRN ==
    \/ RunModeStart
    \/ RunModeNextSymbol
    \/ \E intents \in IntentLists : RunModeNextBar(intents)
    \/ RunModeNextOrder
    \/ RunModeFinalize
    \/ RunModeReturn

(***************************************************************************)
(* BrokerStub: submit_order and cancel_order of one order                  *)
(* (vibetrading_V1/services/execution/broker_stub.py)                      *)
(*                                                                         *)
(* The coroutines run on one event loop: a step runs from one await to the *)
(* next.  submit_order of a market order suspends once, in _execute_fill's *)
(* asyncio.sleep(latency); cancel_order never suspends.  The account       *)
(* balance and the stored Fill objects are left out: no status depends on  *)
(* them.                                                                   *)
(***************************************************************************)

\* Bound: submit_order / cancel_order calls made on the order.
MaxStubCalls == 3


\* The order: a market order without a price or a limit order with one.
StubOrders ==
    {[market |-> "crypto", side |-> "buy", type |-> "market", price |-> 0,
      quantity |-> 1],
     [market |-> "crypto", side |-> "buy", type |-> "limit", price |-> 20000,
      quantity |-> 1]}

\* _execute_fill: the market price used.
StubMarketPrice(lastPrice, order) ==
    IF lastPrice = <<>> THEN order.price ELSE lastPrice[1]

InitST ==
    /\ stub \in [order : StubOrders, lastPrice : {<<>>}, status : {"pending"},
                 open : {FALSE}, sleeping : {0}, fills : {0}, calls : {0}]
    /\ stLog = <<"pending">>

\* BrokerStub.set_price(symbol, price)
StubSetPrice(price) ==
    /\ stub.lastPrice # <<price>>
    /\ stub' = [stub EXCEPT !.lastPrice = <<price>>]
    /\ UNCHANGED <<stLog, rng, simExists>>
    /\ STOnly

\* submit_order up to its first suspension: for a market order with a valid
\* price that is the sleep in _execute_fill; otherwise the call runs to its end.
StubSubmitBegin ==
    /\ stub.calls < MaxStubCalls
    /\ LET price == StubMarketPrice(stub.lastPrice, stub.order)
       IN IF stub.order.type # "market"
          THEN /\ stub' = [stub EXCEPT !.status = "submitted", !.open = TRUE,
                                       !.calls = @ + 1]
               /\ stLog' = Append(stLog, "submitted")
               /\ UNCHANGED <<rng, simExists>>
          ELSE IF price <= 0
          THEN /\ stub' = [stub EXCEPT !.status = "rejected", !.open = TRUE,
                                       !.calls = @ + 1]
               /\ stLog' = stLog \o <<"submitted", "rejected">>
               /\ UNCHANGED <<rng, simExists>>
          ELSE /\ stub' = [stub EXCEPT !.status = "submitted", !.open = TRUE,
                                       !.sleeping = @ + 1, !.calls = @ + 1]
               /\ stLog' = Append(stLog, "submitted")
               /\ rng' = SimulateFill(rng, stub.order, price, fsMinLatency).rng
               /\ simExists' = TRUE
    /\ STOnly

\* submit_order after the sleep: the order is filled and leaves _open_orders.
StubSubmitResume ==
    /\ stub.sleeping > 0
    /\ stub' = [stub EXCEPT !.status = "filled", !.open = FALSE,
                            !.sleeping = @ - 1, !.fills = @ + 1]
    /\ stLog' = Append(stLog, "filled")
    /\ UNCHANGED <<rng, simExists>>
    /\ STOnly

\* cancel_order: OrderError if the order is not in _open_orders.
StubCancelOrder ==
    /\ stub.calls < MaxStubCalls
    /\ IF stub.open
       THEN /\ stub' = [stub EXCEPT !.status = "cancelled", !.open = FALSE,
                                    !.calls = @ + 1]
            /\ stLog' = Append(stLog, "cancelled")
       ELSE /\ stub' = [stub EXCEPT !.calls = @ + 1]
            /\ UNCHANGED stLog
    /\ UNCHANGED <<rng, simExists>>
    /\ STOnly

NextST ==
    \/ \E price \in {0, 20000} : StubSetPrice(price)
    \/ StubSubmitBegin
    \/ StubSubmitResume
    \/ StubCancelOrder

(***************************************************************************)
(* StrategyRunner pipeline (run_strategy.py): one run_async call           *)
(*                                                                         *)
(* run_async awaits runner.start() and calls runner.stop() in its finally  *)
(* clause.  start() and stop() are sequences of awaited calls on the order *)
(* manager (which owns the broker port), the signal engine and the data    *)
(* feed port; each awaited call is one action, and a call of a port may    *)
(* raise.  The broker reports fills of open orders at any time.            *)
(***************************************************************************)

\* Bound: orders submitted while streaming.
MaxPipeOrders == 2

\* Positions of run_async at which runner.start() is suspended in an await.
StartAwaits == {"created", "om_started", "se_started", "feed_connected", "streaming"}

\* The statuses broker.submit_order leaves an order of a signal in.
SubmitStatuses == {"submitted", "filled", "rejected"}

\* StrategyRunner.__init__ and the start of run_async.
InitPL ==
    /\ pipe = [pc |-> "created", startExit |-> "none", running |-> FALSE,
               brokerConnected |-> FALSE, feedConnected |-> FALSE,
               omRunning |-> FALSE, seRunning |-> FALSE,
               connected |-> {}, orders |-> <<>>]
    /\ pipeLog = <<>>

\* start() raised: run_async goes to its finally clause.
StartRaised == [pipe EXCEPT !.pc = "start_done", !.startExit = "raised"]

\* start(): await self._order_manager.start() -> broker.start() -> connect().
RunnerStartOrderManager(ok) ==
    /\ pipe.pc = "created"
    /\ pipe' = IF ok
               THEN [pipe EXCEPT !.pc = "om_started", !.brokerConnected = TRUE,
                                 !.omRunning = TRUE,
                                 !.connected = @ \cup {"broker"}]
               ELSE StartRaised
    /\ UNCHANGED pipeLog
    /\ PLOnly

\* start(): await self._signal_engine.start().
RunnerStartSignalEngine(ok) ==
    /\ pipe.pc = "om_started"
    /\ pipe' = IF ok
               THEN [pipe EXCEPT !.pc = "se_started", !.seRunning = TRUE]
               ELSE StartRaised
    /\ UNCHANGED pipeLog
    /\ PLOnly

\* start(): await self._data_feed.connect().
RunnerFeedConnect(ok) ==
    /\ pipe.pc = "se_started"
    /\ pipe' = IF ok
               THEN [pipe EXCEPT !.pc = "feed_connected", !.feedConnected = TRUE,
                                 !.connected = @ \cup {"feed"}]
               ELSE StartRaised
    /\ UNCHANGED pipeLog
    /\ PLOnly

\* start(): await self._data_feed.subscribe_candles(...); self._running = True.
RunnerSubscribe(ok) ==
    /\ pipe.pc = "feed_connected"
    /\ pipe' = IF ok
               THEN [pipe EXCEPT !.pc = "streaming", !.running = TRUE]
               ELSE StartRaised
    /\ UNCHANGED pipeLog
    /\ PLOnly

\* start(), main loop: a candle whose signal becomes an order, submitted through
\* submit_signal_direct; `status` is what the broker made of it.
RunnerCandle(status) ==
    /\ pipe.pc = "streaming"
    /\ Len(pipe.orders) < MaxPipeOrders
    /\ pipe' = [pipe EXCEPT !.orders = Append(@, status)]
    /\ UNCHANGED pipeLog
    /\ PLOnly

\* start(), main loop: the stream ends (start returns) or the stream or the
\* strategy raises.
RunnerStreamEnd(exit) ==
    /\ pipe.pc = "streaming"
    /\ pipe' = [pipe EXCEPT !.pc = "start_done", !.startExit = exit]
    /\ UNCHANGED pipeLog
    /\ PLOnly

\* KeyboardInterrupt or cancellation while run_async awaits start_task.
RunnerInterrupt ==
    /\ pipe.pc \in StartAwaits
    /\ pipe' = [pipe EXCEPT !.pc = "start_done", !.startExit = "interrupted"]
    /\ UNCHANGED pipeLog
    /\ PLOnly

\* The broker fills an open order.
PipeFill(i) ==
    /\ pipe.brokerConnected
    /\ i \in 1..Len(pipe.orders)
    /\ pipe.orders[i] = "submitted"
    /\ pipe' = [pipe EXCEPT !.orders[i] = "filled"]
    /\ UNCHANGED pipeLog
    /\ PLOnly

\* stop(): self._running = False; await self._data_feed.disconnect().
RunnerStopFeed(ok) ==
    /\ pipe.pc = "start_done"
    /\ pipeLog' = Append(pipeLog, "feed.disconnect")
    /\ pipe' = IF ok
               THEN [pipe EXCEPT !.pc = "feed_stopped", !.running = FALSE,
                                 !.feedConnected = FALSE]
               ELSE [pipe EXCEPT !.pc = "stop_raised", !.running = FALSE]
    /\ PLOnly

\* stop(): await self._order_manager.stop(), which is _running = False and
\* broker.stop() -> disconnect().
RunnerStopOrderManager(ok) ==
    /\ pipe.pc = "feed_stopped"
    /\ pipeLog' = Append(pipeLog, "broker.disconnect")
    /\ pipe' = IF ok
               THEN [pipe EXCEPT !.pc = "om_stopped", !.omRunning = FALSE,
                                 !.brokerConnected = FALSE]
               ELSE [pipe EXCEPT !.pc = "stop_raised", !.omRunning = FALSE]
    /\ PLOnly

\* stop(): await self._signal_engine.stop(); stop returns.
RunnerStopSignalEngine ==
    /\ pipe.pc = "om_stopped"
    /\ pipeLog' = Append(pipeLog, "engine.stop")
    /\ pipe' = [pipe EXCEPT !.pc = "stopped", !.seRunning = FALSE]
    /\ PLOnly

NextPL ==
    \/ \E ok \in BOOLEAN : RunnerStartOrderManager(ok)
    \/ \E ok \in BOOLEAN : RunnerStartSignalEngine(ok)
    \/ \E ok \in BOOLEAN : RunnerFeedConnect(ok)
    \/ \E ok \in BOOLEAN : RunnerSubscribe(ok)
    \/ \E status \in SubmitStatuses : RunnerCandle(status)
    \/ \E exit \in {"returned", "raised"} : RunnerStreamEnd(exit)
    \/ RunnerInterrupt
    \/ \E i \in 1..MaxPipeOrders : PipeFill(i)
    \/ \E ok \in BOOLEAN : RunnerStopFeed(ok)
    \/ \E ok \in BOOLEAN : RunnerStopOrderManager(ok)
    \/ RunnerStopSignalEngine

(***************************************************************************)
(* Walk-forward windows (backtest/walk_forward.py)                         *)
(*                                                                         *)
(* Dates are day numbers counted from 2022-01-01 (day 0); 2024-01-01 is    *)
(* day 730.  timedelta(days = n) is the addition of n.  step_days is       *)
(* positive: with step_days <= 0 the loop of generate_windows does not end *)
(* once a first window fits.                                               *)
(***************************************************************************)

\* Bound: the latest end date, in days after the earliest start date.
MaxEndDay == 740

\* WalkForwardConfig defaults: in_sample_days, out_of_sample_days, step_days.
DefaultInSampleDays == 252
DefaultOutOfSampleDays == 63
DefaultStepDays == 63

WfConfigs ==
    [start : {0, 5}, end : {0, 314, 315, 377, 378} \cup (725..MaxEndDay),
     isDays : {DefaultInSampleDays, 100}, oosDays : {DefaultOutOfSampleDays, 30},
     stepDays : {DefaultStepDays, 21, 100}]

\* The windows from current_is_start on, with the loop's `>=` for `>` (variant for
\* comparison).
RECURSIVE WindowsFromStrict(_, _, _)
WindowsFromStrict(cfg, isStart, id) ==
    LET isEnd == isStart + cfg.isDays
        oosEnd == isEnd + cfg.oosDays
    IN IF oosEnd >= cfg.end THEN <<>>
       ELSE <<[id |-> id, isStart |-> isStart, isEnd |-> isEnd,
               oosStart |-> isEnd, oosEnd |-> oosEnd]>>
            \o WindowsFromStrict(cfg, isStart + cfg.stepDays, id + 1)

\* The loop of generate_windows from current_is_start on.
RECURSIVE WindowsFrom(_, _, _)
WindowsFrom(cfg, isStart, id) ==
    LET isEnd == isStart + cfg.isDays
        oosStart == isEnd
        oosEnd == oosStart + cfg.oosDays
    IN IF oosEnd > cfg.end THEN <<>>
       ELSE <<[id |-> id, isStart |-> isStart, isEnd |-> isEnd,
               oosStart |-> oosStart, oosEnd |-> oosEnd]>>
            \o WindowsFrom(cfg, isStart + cfg.stepDays, id + 1)

\* generate_windows with the strict comparison (variant for comparison).
GenerateWindowsStrict(cfg) == WindowsFromStrict(cfg, cfg.start, 0)

\* WalkForwardValidator.generate_windows.
GenerateWindows(cfg) == WindowsFrom(cfg, cfg.start, 0)

InitWFWith(configs) ==
    /\ wfConfig \in configs
    /\ wfWindows = <<>>

InitWF == InitWFWith(WfConfigs)

GenerateWindowsCall ==
    /\ wfWindows = <<>>
    /\ wfWindows' = <<GenerateWindows(wfConfig)>>
    /\ UNCHANGED wfConfig
    /\ WFOnly

NextWF == GenerateWindowsCall

(***************************************************************************)
(* Two signal engines in one process (signal_gen/engine.py,                *)
(* signal_gen/strategy_loader.py, strategies/turtle_breakout.py)           *)
(*                                                                         *)
(* Two SignalGenerationEngine objects are made with the same strategy name *)
(* and team; each is fed its own candle stream, one candle per call of     *)
(* process_candle_sync, and the calls of the two engines interleave.       *)
(* get_strategy caches the StrategyWrapper per name and team, so both      *)
(* engines hold the same Strategy object, whose _state is keyed by symbol. *)
(***************************************************************************)

\* Bound: bars of a stream after the warm-up bars.
MaxShTail == 2

ShEngines == {1, 2}

\* The symbols of engine 1 and engine 2: the same symbol, or different ones.
ShSymbolPairs == {<<"BTCUSDT", "BTCUSDT">>, <<"BTCUSDT", "ETHUSDT">>}

ShStreams == {Warmup \o tail : tail \in [1..MaxShTail -> BarSet]}

InitSHWith(pairs, streams) ==
    sh \in [symbols : pairs,
            bars : streams,
            state : {[s \in Symbols |-> NoSymbolState]},
            eng : {[e \in ShEngines |-> [hasStrategy |-> FALSE, k |-> 0,
                                         signals |-> <<>>]]}]

InitSH == InitSHWith(ShSymbolPairs, ShStreams)

\* process_candle_sync, first part: on the engine's first candle get_strategy
\* returns the cached wrapper and initialize() clears the Strategy's _state.
ShFetchStrategy(e) ==
    IF sh.eng[e].hasStrategy THEN sh.state
    ELSE [s \in Symbols |-> StrategyInitialize(sh.state[s])]

\* SignalGenerationEngine.process_candle_sync(candle) of engine e with the next
\* candle of its stream.
ProcessCandleSync(e) ==
    /\ sh.eng[e].k < Len(sh.bars)
    /\ LET symbol == sh.symbols[e]
           k == sh.eng[e].k + 1
           state == ShFetchStrategy(e)
           out == OnCandle(state[symbol], sh.bars[k])
       IN sh' = [sh EXCEPT !.state = [state EXCEPT ![symbol] = out.strat],
                           !.eng[e] = [hasStrategy |-> TRUE, k |-> k,
                                       signals |-> Append(@.signals, out.signal)]]
    /\ SHOnly

NextSH == \E e \in ShEngines : ProcessCandleSync(e)

(***************************************************************************)
(* BacktestEngine._process_signal under arbitrary signals                  *)
(*   src/backtest/engine.py                                                *)
(* One engine is handed signals of every action for two symbols, whatever  *)
(* a strategy would emit.                                                  *)
(***************************************************************************)

MaxSignals == 4

SgSymbols == {"BTCUSDT", "ETHUSDT"}

\* SignalAction.
SignalActions == {"enter_long", "exit_long", "enter_short", "exit_short"}

\* The close of the candles the signals arrive on (10% of the capital buys a whole
\* quantity at it).
SgCloses == {UpBar.close}

NoSignalCall == [called |-> FALSE, symbol |-> "", action |-> "", positions |-> <<>>,
                 trades |-> <<>>, fills |-> 0]

\* BacktestEngine.__init__: no position, no trade.
InitSG ==
    /\ sg = [positions |-> [s \in SgSymbols |-> <<>>], trades |-> <<>>, fills |-> 0,
             calls |-> 0]
    /\ sgLast = NoSignalCall

\* The engine as _process_signal sees it for a signal of the symbol.
EngineFor(symbol) ==
    [FreshRun EXCEPT !.rng = rng, !.sim = simExists,
                     !.eng = [NewEngine EXCEPT !.positions = sg.positions[symbol],
                                               !.trades = sg.trades,
                                               !.fills = sg.fills]]

\* _process_signal(signal, candle) for a signal of the symbol on a candle with the
\* given close.
ProcessSignalCall(symbol, action, close) ==
    /\ sg.calls < MaxSignals
    /\ \E rs \in {ProcessEngineSignal(EngineFor(symbol),
                                       <<[high |-> close, low |-> close, close |-> close,
                                          ts |-> sg.calls + 1]>>, 1, action)} :
          /\ sg' = [positions |-> [sg.positions EXCEPT ![symbol] = rs.eng.positions],
                    trades |-> rs.eng.trades, fills |-> rs.eng.fills,
                    calls |-> sg.calls + 1]
          /\ rng' = rs.rng
          /\ simExists' = rs.sim
    /\ sgLast' = [called |-> TRUE, symbol |-> symbol, action |-> action,
                  positions |-> sg.positions, trades |-> sg.trades, fills |-> sg.fills]
    /\ SGOnly

NextSG ==
    \E symbol \in SgSymbols, action \in SignalActions, close \in SgCloses :
        ProcessSignalCall(symbol, action, close)

(***************************************************************************)
(* BacktestEngine._calculate_results on a given trade list                 *)
(*   src/backtest/engine.py                                                *)
(* P&L in engine units (1/2000): 20 units are 0.01.                        *)
(***************************************************************************)

MaxPfTrades == 3

\* P&L of a closed trade: losses below and above 0.01, exactly 0, gains.
PnlValues == {-40, -10, 0, 10, 30}

PfTradeLists(n) == UNION {[1..m -> [pnl : PnlValues]] : m \in 1..n}

InitPFWith(lists) ==
    pf \in [trades : lists, computed : {FALSE}, result : {CalculateResults(NoEngine)}]

InitPF == InitPFWith(PfTradeLists(MaxPfTrades))

\* _calculate_results of an engine whose self._trades is the list.
CalculateResultsCall ==
    /\ ~pf.computed
    /\ pf' = [pf EXCEPT !.computed = TRUE,
                        !.result = CalculateResults([NewEngine EXCEPT
                                                        !.trades = pf.trades])]
    /\ PFOnly

NextPF == CalculateResultsCall

(***************************************************************************)
(* One run() over an ascending stream of daily bars                        *)
(*   src/backtest/engine.py, src/strategies/turtle_breakout.py             *)
(* A new engine in a new process runs turtle_breakout over bars whose      *)
(* closes rise by 2 from 100; the run is followed candle by candle.        *)
(***************************************************************************)

ScenarioLength == 25

ScenarioClose(k) == 100 + 2 * (k - 1)

\* The bars of the stream: each high lies highOffset above the close and each low
\* lowOffset below it; with spike, the high of the bar before the lookback fills
\* lies 3 above its close.
ScenarioBars(highOffset, lowOffset, spike) ==
    [k \in 1..ScenarioLength |->
        [high |-> ScenarioClose(k)
                    + (IF spike /\ k = LookbackEntry - 1 THEN 3 ELSE highOffset),
         low |-> ScenarioClose(k) - lowOffset,
         close |-> ScenarioClose(k)]]

ScenarioStreams ==
    {ScenarioBars(h, l, s) : h \in {0, 1, 3}, l \in {0, 1}, s \in BOOLEAN}

\* The stream whose bars have high = low = close.
PlainStream == ScenarioBars(0, 0, FALSE)

InitSCWith(streams) ==
    sc \in [bars : streams, k : {1}, rs : {FreshRun}, done : {FALSE},
            result : {CalculateResults(NoEngine)}]

InitSC == InitSCWith(ScenarioStreams)

\* run(), loop body: _process_candle of the next candle of the stream.
ScProcessCandle ==
    /\ ~sc.done
    /\ sc.k <= Len(sc.bars)
    /\ sc' = [sc EXCEPT !.rs = CandleStep(sc.rs, sc.bars, sc.k), !.k = sc.k + 1]
    /\ SCOnly

\* run(), after the last candle: _close_all_positions and _calculate_results.
ScStreamEnd ==
    /\ ~sc.done
    /\ sc.k > Len(sc.bars)
    /\ \E eng \in {CloseAllPositions(sc.rs.eng)} :
          sc' = [sc EXCEPT !.rs.eng = eng, !.done = TRUE,
                           !.result = CalculateResults(eng)]
    /\ SCOnly

NextSC == ScProcessCandle \/ ScStreamEnd

(***************************************************************************)
(* WalkForwardValidator.run: the engine runs of the windows                *)
(*   src/backtest/walk_forward.py, src/services/signal_gen/engine.py       *)
(* Every window makes two runs (in-sample, then out-of-sample), each on a  *)
(* BacktestEngine of its own; the strategy object comes from the cache of  *)
(* the strategy loader and is the same in all of them.                     *)
(***************************************************************************)

MaxWindows == 2

\* What the candle provider may return for a date range.
WindowCandles == {<<>>} \cup OrderedInputs

NoWindowRun == [done |-> FALSE, bars |-> <<>>, signals |-> <<>>,
                stratBefore |-> NoSymbolState, firstSeen |-> NoSymbolState]

\* WalkForwardValidator.__init__: nothing has run; the strategy is not loaded.
InitWR ==
    wfRun = [strat |-> NoSymbolState, stratLoaded |-> FALSE, stratInit |-> FALSE,
             runs |-> 0, last |-> NoWindowRun]

\* The state a run of a new BacktestEngine starts from: _reset on an engine whose
\* signal engine has no strategy yet leaves the cached strategy as it is.
NewEngineRun ==
    [FreshRun EXCEPT !.strat = wfRun.strat, !.stratLoaded = wfRun.stratLoaded,
                     !.stratInit = wfRun.stratInit, !.rng = rng, !.sim = simExists]

\* _run_window(start, end): BacktestEngine(config).run(candles), called by run()
\* for the in-sample range and then for the out-of-sample range of each window.
RunWindow(bars) ==
    /\ wfRun.runs < 2 * MaxWindows
    /\ \E rs \in {ProcessCandles(NewEngineRun, bars, 1)} :
          /\ wfRun' = [strat |-> rs.strat, stratLoaded |-> rs.stratLoaded,
                       stratInit |-> rs.stratInit, runs |-> wfRun.runs + 1,
                       last |-> [done |-> TRUE, bars |-> bars, signals |-> rs.signals,
                                 stratBefore |-> wfRun.strat,
                                 firstSeen |-> IF bars = <<>> THEN NoSymbolState
                                               ELSE BeforeStrategy(NewEngineRun, bars,
                                                                   1).strat]]
          /\ rng' = rs.rng
          /\ simExists' = rs.sim
    /\ WROnly

NextWR == \E bars \in WindowCandles : RunWindow(bars)

(***************************************************************************)
(* Order manager coroutines with an exchange broker, NATS mode             *)
(* (src/services/execution/order_manager.py, crypto_binance.py).  Every    *)
(* await that really suspends is a point at which the other handlers and   *)
(* the fill / order-update tasks run; one action is one run of a coroutine *)
(* from one suspension to the next.                                        *)
(***************************************************************************)

MaxTaskSignals == 2

OtIds == 1..MaxTaskSignals

\* What the exchange answers to create_order: "submitted" (resting, or a
\* response without a status), "filled" (matched at once), "rejected".
Replies == {"submitted", "filled", "rejected"}

RECURSIVE AscendingSeq(_)
AscendingSeq(S) ==
    IF S = {} THEN <<>>
    ELSE LET m == CHOOSE x \in S : \A y \in S : x <= y
         IN <<m>> \o AscendingSeq(S \ {m})

InitOT ==
    ot = [killed       |-> FALSE,                       \* OrderManager._killed
          pending      |-> {},                          \* keys of _pending_orders
          status       |-> [i \in OtIds |-> "none"],    \* Order.status of the order objects
          exchange     |-> [i \in OtIds |-> "none"],    \* the order at the exchange
          reply        |-> "none",                      \* create_order's answer, in flight
          sigPc        |-> "idle",                      \* _on_signal_message's position
          sigOrder     |-> 0,
          signals      |-> 0,                           \* signal messages delivered
          killPc       |-> "idle",                      \* _on_kill_switch's position
          snapshot     |-> <<>>,                        \* list(self._pending_orders.values())
          reported     |-> {},                          \* fills the user stream delivered
          fillTasks    |-> {},                          \* _handle_fill_async tasks
          updateTasks  |-> {},                          \* _handle_order_update_async tasks
          submitKilled |-> {}]                          \* history: submit_order called while _killed

\* _on_signal_message -> _process_signal, up to `await self._persist_order(order)`.
OtProcessSignal ==
    /\ ot.sigPc = "idle"
    /\ ot.signals < MaxTaskSignals
    /\ ot' = IF ot.killed
             THEN [ot EXCEPT !.signals = @ + 1]
             ELSE [ot EXCEPT !.signals = @ + 1,
                             !.sigOrder = ot.signals + 1,
                             !.status[ot.signals + 1] = "pending",
                             !.sigPc = "persist"]
    /\ OTOnly

\* _process_signal resumes after the persistence await and calls
\* broker.submit_order, which suspends at `await self._client.create_order`.
\* The latch is not read again.
OtSubmitOrder(reply) ==
    /\ ot.sigPc = "persist"
    /\ ot' = [ot EXCEPT !.sigPc = "create_order",
                        !.reply = reply,
                        !.exchange[ot.sigOrder] =
                            IF reply = "submitted" THEN "open" ELSE reply,
                        !.submitKilled =
                            IF ot.killed THEN @ \cup {ot.sigOrder} ELSE @]
    /\ OTOnly

\* create_order answers: submit_order sets the status, invokes the
\* order-update callback (a new task) and returns; _process_signal inserts
\* the order and suspends at `await self._publish_order_event`.  A rejection
\* raises OrderError: the order is marked REJECTED and persisted, never
\* inserted.
OtSubmitReturns ==
    /\ ot.sigPc = "create_order"
    /\ ot' = IF ot.reply = "rejected"
             THEN [ot EXCEPT !.status[ot.sigOrder] = "rejected",
                             !.reply = "none",
                             !.sigPc = "persist_rejected"]
             ELSE [ot EXCEPT !.status[ot.sigOrder] = ot.reply,
                             !.reply = "none",
                             !.updateTasks = @ \cup {[id |-> ot.sigOrder, pc |-> "persist",
                                                      from |-> "submit"]},
                             !.pending = @ \cup {ot.sigOrder},
                             !.sigPc = "publish"]
    /\ OTOnly

\* _process_signal returns and _on_signal_message acknowledges the message.
OtSignalDone ==
    /\ ot.sigPc \in {"publish", "persist_rejected"}
    /\ ot' = [ot EXCEPT !.sigPc = "idle"]
    /\ OTOnly

\* The user stream delivers the execution report of a trade that fills the
\* order: _handle_execution_report invokes the fill callback, which creates
\* a _handle_fill_async task.
OtExecutionReport(id) ==
    /\ ot.exchange[id] \in {"open", "filled"}
    /\ id \notin ot.reported
    /\ ot' = [ot EXCEPT !.exchange[id] = "filled",
                        !.reported = @ \cup {id},
                        !.fillTasks = @ \cup {[id |-> id, pc |-> "persist"]}]
    /\ OTOnly

\* _handle_fill_async: await _persist_fill, await _publish_fill, pop.
OtFillTask(t) ==
    /\ t \in ot.fillTasks
    /\ ot' = IF t.pc = "persist"
             THEN [ot EXCEPT !.fillTasks = (@ \ {t}) \cup {[t EXCEPT !.pc = "publish"]}]
             ELSE [ot EXCEPT !.fillTasks = @ \ {t},
                             !.pending = @ \ {t.id}]
    /\ OTOnly

\* _handle_order_update_async: await _persist_order, await
\* _publish_order_event, pop when the order is terminal by then.
OtUpdateTask(t) ==
    /\ t \in ot.updateTasks
    /\ ot' = IF t.pc = "persist"
             THEN [ot EXCEPT !.updateTasks = (@ \ {t}) \cup {[t EXCEPT !.pc = "publish"]}]
             ELSE [ot EXCEPT !.updateTasks = @ \ {t},
                             !.pending = IF ot.status[t.id] \in TerminalStatuses
                                         THEN @ \ {t.id} ELSE @]
    /\ OTOnly

\* _on_kill_switch, up to `await msg.ack()`.
OtKillSwitch ==
    /\ ot.killPc = "idle"
    /\ ot' = [ot EXCEPT !.killed = TRUE, !.killPc = "ack"]
    /\ OTOnly

\* _on_kill_switch resumes: the orders pending now are the ones it cancels.
OtKillSnapshot ==
    /\ ot.killPc = "ack"
    /\ ot' = [ot EXCEPT !.snapshot = AscendingSeq(ot.pending),
                        !.killPc = IF ot.pending = {} THEN "done" ELSE "cancel"]
    /\ OTOnly

\* One turn of the loop: broker.cancel_order on the next order of the
\* snapshot.  The exchange cancels an open order (status CANCELLED, the
\* order-update callback creates a task); for any other order cancel_order
\* raises OrderError, which the loop logs.
OtKillCancel ==
    /\ ot.killPc = "cancel"
    /\ LET id   == Head(ot.snapshot)
           rest == Tail(ot.snapshot)
           next == IF rest = <<>> THEN "done" ELSE "cancel"
       IN ot' = IF ot.exchange[id] = "open"
                THEN [ot EXCEPT !.exchange[id] = "cancelled",
                                !.status[id] = "cancelled",
                                !.updateTasks = @ \cup {[id |-> id, pc |-> "persist",
                                                         from |-> "cancel"]},
                                !.snapshot = rest,
                                !.killPc = next]
                ELSE [ot EXCEPT !.snapshot = rest, !.killPc = next]
    /\ OTOnly

OtResume ==
    \/ \E reply \in Replies : OtSubmitOrder(reply)
    \/ OtSubmitReturns
    \/ OtSignalDone
    \/ \E t \in ot.fillTasks : OtFillTask(t)
    \/ \E t \in ot.updateTasks : OtUpdateTask(t)
    \/ OtKillSnapshot
    \/ OtKillCancel

NextOT ==
    \/ OtProcessSignal
    \/ \E reply \in Replies : OtSubmitOrder(reply)
    \/ OtSubmitReturns
    \/ OtSignalDone
    \/ \E id \in OtIds : OtExecutionReport(id)
    \/ \E t \in ot.fillTasks : OtFillTask(t)
    \/ \E t \in ot.updateTasks : OtUpdateTask(t)
    \/ OtKillSwitch
    \/ OtKillSnapshot
    \/ OtKillCancel

(***************************************************************************)
(* One KillSwitch object (src/services/risk_engine/kill_switch.py) and the *)
(* trigger calls made on it: manual ones and those RiskManager.update_     *)
(* equity makes through _check_drawdown and _check_daily_loss.  trigger    *)
(* suspends once, in its broadcast; reset is synchronous.                  *)
(***************************************************************************)

\* Bound: trigger calls made on the switch.
MaxTriggerCalls == 4

TriggerReasons == {"manual", "drawdown", "daily_loss"}

NoTrigger == [at |-> <<>>, reason |-> <<>>]

InitKL ==
    kl = [triggered   |-> FALSE,        \* KillSwitch._triggered
          at          |-> <<>>,         \* Optional: _triggered_at
          reason      |-> <<>>,         \* Optional: _triggered_reason
          calls       |-> 0,            \* trigger calls so far; the clock
          broadcasts  |-> {},           \* trigger calls suspended in their broadcast
          cycle       |-> 0,            \* history: Armed -> Triggered transitions
          first       |-> NoTrigger,    \* history: time and reason of the last transition
          events      |-> <<>>,         \* history: the KillSwitchEvents published
          returned    |-> <<>>]         \* history: Optional, _triggered as the last call returned

\* KillSwitch.trigger without its `if self._triggered: return`.
KlTriggerUnlatched(reason) ==
    [kl EXCEPT !.triggered = TRUE,
               !.at = <<kl.calls + 1>>,
               !.reason = <<reason>>,
               !.calls = @ + 1,
               !.cycle = IF kl.triggered THEN @ ELSE @ + 1,
               !.first = IF kl.triggered THEN @
                         ELSE [at |-> <<kl.calls + 1>>, reason |-> <<reason>>],
               !.broadcasts = @ \cup {[call |-> kl.calls + 1,
                                       cycle |-> IF kl.triggered THEN kl.cycle
                                                 ELSE kl.cycle + 1,
                                       reason |-> reason]},
               !.returned = <<>>]

\* KillSwitch.trigger up to `await ensure_connected()`: a triggered switch
\* logs and returns; an armed one latches, records time and reason, and goes
\* on to broadcast.
KlTriggerStep(reason) ==
    IF kl.triggered
    THEN [kl EXCEPT !.calls = @ + 1, !.returned = <<kl.triggered>>]
    ELSE [kl EXCEPT !.triggered = TRUE,
                    !.at = <<kl.calls + 1>>,
                    !.reason = <<reason>>,
                    !.calls = @ + 1,
                    !.cycle = @ + 1,
                    !.first = [at |-> <<kl.calls + 1>>, reason |-> <<reason>>],
                    !.broadcasts = @ \cup {[call |-> kl.calls + 1, cycle |-> kl.cycle + 1,
                                            reason |-> reason]},
                    !.returned = <<>>]

KlTrigger(reason) ==
    /\ kl.calls < MaxTriggerCalls
    /\ kl' = KlTriggerStep(reason)
    /\ KLOnly

\* The broadcast of a suspended trigger call: the event is published, or
\* ensure_connected / publish raises and the error is logged; trigger returns.
KlBroadcast(b, publishOk) ==
    /\ b \in kl.broadcasts
    /\ kl' = [kl EXCEPT !.broadcasts = @ \ {b},
                        !.events = IF publishOk
                                   THEN Append(@, [cycle |-> b.cycle, reason |-> b.reason])
                                   ELSE @,
                        !.returned = IF b.cycle = kl.cycle /\ kl.first.at = <<b.call>>
                                     THEN <<kl.triggered>> ELSE <<>>]
    /\ KLOnly

\* KillSwitch.reset.
KlReset ==
    /\ kl.triggered
    /\ kl' = [kl EXCEPT !.triggered = FALSE, !.at = <<>>, !.reason = <<>>,
                        !.first = NoTrigger, !.returned = <<>>]
    /\ KLOnly

NextKL ==
    \/ \E reason \in TriggerReasons : KlTrigger(reason)
    \/ \E b \in kl.broadcasts, publishOk \in BOOLEAN : KlBroadcast(b, publishOk)
    \/ KlReset

(***************************************************************************)
(* generate_windows, one turn of its `while True` loop at a time           *)
(* (backtest/walk_forward.py), for configurations that include             *)
(* step_days <= 0 and start_date > end_date.  Dates are day numbers from   *)
(* 2022-01-01; the list is represented by its length, counted up to        *)
(* MaxListed.                                                              *)
(***************************************************************************)

\* Bound: the length of the list is counted up to here.
MaxListed == 3

\* datetime.min is 0001-01-01, ordinal 1; 2022-01-01 has ordinal 738156.
\* A datetime below it cannot be formed: the addition raises OverflowError.
MinDay == 1 - 738156

LoopConfigs ==
    [start : {0, 400}, end : {300, 378, 441},
     isDays : {DefaultInSampleDays}, oosDays : {DefaultOutOfSampleDays},
     stepDays : {DefaultStepDays, 0, -DefaultStepDays}]

InitWLWith(configs) ==
    wl \in [cfg : configs, isStart : {0}, listed : {0}, pc : {"called"}]

InitWL == InitWLWith(LoopConfigs)

\* generate_windows, entry: windows = [], current_is_start = start_date.
WlEnter ==
    /\ wl.pc = "called"
    /\ wl' = [wl EXCEPT !.isStart = wl.cfg.start, !.pc = "loop"]
    /\ WLOnly

\* One turn of the loop: break and return when the out-of-sample end lies
\* after end_date; otherwise append a window and advance current_is_start.
WlTurn(w) ==
    LET oosEnd == w.isStart + w.cfg.isDays + w.cfg.oosDays
    IN IF oosEnd > w.cfg.end
       THEN [w EXCEPT !.pc = "returned"]
       ELSE IF w.isStart + w.cfg.stepDays < MinDay
       THEN [w EXCEPT !.listed = Min(@ + 1, MaxListed), !.pc = "raised"]
       ELSE [w EXCEPT !.listed = Min(@ + 1, MaxListed),
                      !.isStart = @ + w.cfg.stepDays]

WlLoop ==
    /\ wl.pc = "loop"
    /\ wl' = WlTurn(wl)
    /\ WLOnly

NextWL == WlEnter \/ WlLoop

(***************************************************************************)
(* The candle path of the live runner: StrategyRunner.start                *)
(* (vibetrading_V1/run_strategy.py) with the crypto feed                   *)
(* (services/data_feed/crypto_feed.py, base.py), from the subscription on. *)
(* The feed's receive task moves the klines that arrived on the socket to  *)
(* the candle queue; start() reads the queue through stream_candles.       *)
(* DataFeedProvider._running is set by DataFeedProvider.start only, which  *)
(* the runner does not call: it calls connect and subscribe_candles.       *)
(***************************************************************************)

\* Bound: klines the exchange sends.
MaxCandles == 5

\* StrategyRunner.start has connected the feed and is suspended in
\* subscribe_candles, at `await self._ws.send(...)`.
InitFD ==
    fd = [pc            |-> "subscribing",
          feedRunning   |-> FALSE,      \* DataFeedProvider._running
          runnerRunning |-> FALSE,      \* StrategyRunner._running
          recvTask      |-> "none",     \* the task of _receive_loop
          arrived       |-> 0,          \* klines sent by the exchange
          buffered      |-> <<>>,       \* klines on the socket, not yet read
          queue         |-> <<>>,       \* _candle_queue
          enqueued      |-> <<>>,       \* history: every candle put on the queue
          delivered     |-> <<>>,       \* history: candles passed to process_candle_sync
          interrupted   |-> FALSE]      \* history: the run was interrupted from outside

\* The exchange sends the next kline of a subscribed stream.
FdKlineArrives ==
    /\ fd.pc # "stopped"
    /\ fd.arrived < MaxCandles
    /\ fd' = [fd EXCEPT !.arrived = @ + 1, !.buffered = Append(@, fd.arrived + 1)]
    /\ FDOnly

\* subscribe_candles returns: the receive task is created; start sets
\* self._running = True and reaches its `async for`.
FdSubscribed ==
    /\ fd.pc = "subscribing"
    /\ fd' = [fd EXCEPT !.recvTask = "ready", !.runnerRunning = TRUE,
                        !.pc = "subscribed"]
    /\ FDOnly

\* stream_candles, one turn of `while self._running`, with the loop body of
\* start: the generator ends when the feed is not running, which ends the
\* `async for` and start(); a candle taken from the queue is passed to
\* process_candle_sync unless the runner has been stopped; with an empty
\* queue the wait times out and the loop goes on.
StreamCandles(f) ==
    IF ~f.feedRunning THEN [f EXCEPT !.pc = "returned"]
    ELSE IF f.queue = <<>> THEN [f EXCEPT !.pc = "streaming"]
    ELSE IF ~f.runnerRunning THEN [f EXCEPT !.queue = Tail(@), !.pc = "returned"]
    ELSE [f EXCEPT !.queue = Tail(@), !.delivered = Append(@, Head(f.queue)),
                   !.pc = "streaming"]

FdStream ==
    /\ fd.pc \in {"subscribed", "streaming"}
    /\ fd' = StreamCandles(fd)
    /\ FDOnly

\* _receive_loop: the task starts, or resumes with a message: the kline is
\* put on the candle queue; without a message the task waits in recv.
FdReceive ==
    /\ fd.recvTask = "ready" \/ (fd.recvTask = "waiting" /\ fd.buffered # <<>>)
    /\ fd' = IF fd.buffered = <<>>
             THEN [fd EXCEPT !.recvTask = "waiting"]
             ELSE [fd EXCEPT !.recvTask = "waiting",
                             !.buffered = Tail(@),
                             !.queue = Append(@, Head(fd.buffered)),
                             !.enqueued = Append(@, Head(fd.buffered))]
    /\ FDOnly

\* KeyboardInterrupt or cancellation while run_async awaits start_task.
FdInterrupt ==
    /\ fd.pc \in {"subscribing", "subscribed", "streaming"}
    /\ fd' = [fd EXCEPT !.interrupted = TRUE, !.pc = "returned"]
    /\ FDOnly

\* run_async, finally clause: runner.stop() sets _running = False and
\* disconnects the feed, which cancels the receive task and closes the socket.
FdStop ==
    /\ fd.pc = "returned"
    /\ fd' = [fd EXCEPT !.runnerRunning = FALSE, !.recvTask = "cancelled",
                        !.pc = "stopped"]
    /\ FDOnly

NextFD ==
    \/ FdKlineArrives
    \/ FdSubscribed
    \/ FdStream
    \/ FdReceive
    \/ FdInterrupt
    \/ FdStop

(***************************************************************************)
(* Specifications: one per sub-model; the other sub-models stay in their   *)
(* constructed state.                                                      *)
(***************************************************************************)

IdleKS == InitKSWith({FALSE})
IdleRM == InitRMWith({DefaultDailyLossLimitPct})
IdlePT == InitPT
IdleFS == InitFSWith({0}, {50})
IdleBT == InitBT
IdleSQ == InitSQ
IdleRG == InitRGWith({[op |-> "load", file |-> CHOOSE f \in BundleFiles : TRUE,
                        lists |-> DefaultLists]})
IdleMG == InitMGWith({DefaultPolicySet}, {<<>>})
IdleRN == InitRNWith({<<"BTC-USD">>}, {0}, {FALSE})
IdleST == InitST /\ stub.order.type = "market"
IdleMore == IdleSQ /\ IdleRG /\ IdleMG /\ IdleRN /\ IdleST
IdlePL == InitPL
IdleWF == InitWFWith({[start |-> 0, end |-> 0, isDays |-> DefaultInSampleDays,
                       oosDays |-> DefaultOutOfSampleDays,
                       stepDays |-> DefaultStepDays]})
IdleSH == InitSHWith({<<"BTCUSDT", "ETHUSDT">>}, {Warmup \o [i \in 1..MaxShTail |-> UpBar]})
IdleSG == InitSG
IdlePF == InitPFWith({<<[pnl |-> 0]>>})
IdleSC == InitSCWith({PlainStream})
IdleWR == InitWR
IdleLate == IdleSG /\ IdlePF /\ IdleSC /\ IdleWR
IdleOT == InitOT
IdleKL == InitKL
IdleWL == InitWLWith({[start |-> 0, end |-> 0, isDays |-> DefaultInSampleDays,
                       oosDays |-> DefaultOutOfSampleDays, stepDays |-> DefaultStepDays]})
IdleFD == InitFD
IdleEnd == IdleOT /\ IdleKL /\ IdleWL /\ IdleFD
IdleExt == IdlePL /\ IdleWF /\ IdleSH /\ IdleLate

StartKS == InitKS /\ IdleRM /\ IdlePT /\ IdleFS /\ IdleBT /\ IdleMore /\ IdleExt /\ IdleEnd
SpecKS == StartKS /\ [][NextKS]_vars

StartRM == IdleKS /\ InitRM /\ IdlePT /\ IdleFS /\ IdleBT /\ IdleMore /\ IdleExt /\ IdleEnd
SpecRM == StartRM /\ [][NextRM]_vars

StartPT == IdleKS /\ IdleRM /\ InitPT /\ IdleFS /\ IdleBT /\ IdleMore /\ IdleExt /\ IdleEnd
SpecPT == StartPT /\ [][NextPT]_vars

StartFS == IdleKS /\ IdleRM /\ IdlePT /\ InitFS /\ IdleBT /\ IdleMore /\ IdleExt /\ IdleEnd
SpecFill == StartFS /\ [][NextFS]_vars

StartBT == IdleKS /\ IdleRM /\ IdlePT /\ InitFSWith(RngStartValues, {50}) /\ InitBT /\ IdleMore /\ IdleExt /\ IdleEnd
SpecBT == StartBT /\ [][NextBT]_vars

IdleCore == IdleKS /\ IdleRM /\ IdlePT /\ IdleFS /\ IdleBT

StartSQ == IdleKS /\ IdleRM /\ IdlePT /\ InitFSWith(RngStartValues, {50}) /\ IdleBT /\ InitSQ /\ IdleRG /\ IdleMG /\ IdleRN /\ IdleST /\ IdleExt /\ IdleEnd
SpecSim == StartSQ /\ [][NextSQ]_vars

StartRG == IdleCore /\ IdleSQ /\ InitRG /\ IdleMG /\ IdleRN /\ IdleST /\ IdleExt /\ IdleEnd
SpecReg == StartRG /\ [][NextRG]_vars

StartMG == IdleCore /\ IdleSQ /\ IdleRG /\ InitMG /\ IdleRN /\ IdleST /\ IdleExt /\ IdleEnd
SpecMerge == StartMG /\ [][NextMG]_vars

StartRN == IdleCore /\ IdleSQ /\ IdleRG /\ IdleMG /\ InitRN /\ IdleST /\ IdleExt /\ IdleEnd
SpecRunner == StartRN /\ [][NextRN]_vars

StartST == IdleKS /\ IdleRM /\ IdlePT /\ InitFSWith(RngStartValues, {50}) /\ IdleBT /\ IdleSQ /\ IdleRG /\ IdleMG /\ IdleRN /\ InitST /\ IdleExt /\ IdleEnd
SpecStub == StartST /\ [][NextST]_vars

StartPL == IdleCore /\ IdleMore /\ InitPL /\ IdleWF /\ IdleSH /\ IdleLate /\ IdleEnd
SpecPipeline == StartPL /\ [][NextPL]_vars

StartWF == IdleCore /\ IdleMore /\ IdlePL /\ InitWF /\ IdleSH /\ IdleLate /\ IdleEnd
SpecWalkForward == StartWF /\ [][NextWF]_vars

StartSH == IdleCore /\ IdleMore /\ IdlePL /\ IdleWF /\ InitSH /\ IdleLate /\ IdleEnd
SpecShared == StartSH /\ [][NextSH]_vars

StartSG == IdleKS /\ IdleRM /\ IdlePT /\ InitFSWith(RngStartValues, {50}) /\ IdleBT /\ IdleMore /\ IdlePL /\ IdleWF /\ IdleSH /\ InitSG /\ IdlePF /\ IdleSC /\ IdleWR /\ IdleEnd
SpecSignals == StartSG /\ [][NextSG]_vars

StartPF == IdleCore /\ IdleMore /\ IdlePL /\ IdleWF /\ IdleSH /\ IdleSG /\ InitPF /\ IdleSC /\ IdleWR /\ IdleEnd
SpecProfit == StartPF /\ [][NextPF]_vars

StartSC == IdleCore /\ IdleMore /\ IdlePL /\ IdleWF /\ IdleSH /\ IdleSG /\ IdlePF /\ InitSC /\ IdleWR /\ IdleEnd
SpecScenario == StartSC /\ [][NextSC]_vars

StartWR == IdleKS /\ IdleRM /\ IdlePT /\ InitFSWith(RngStartValues, {50}) /\ IdleBT /\ IdleMore /\ IdlePL /\ IdleWF /\ IdleSH /\ IdleSG /\ IdlePF /\ IdleSC /\ InitWR /\ IdleEnd
SpecWindowRuns == StartWR /\ [][NextWR]_vars

StartOT == IdleCore /\ IdleMore /\ IdleExt /\ InitOT /\ IdleKL /\ IdleWL /\ IdleFD
SpecOrderTasks == StartOT /\ [][NextOT]_vars

\* The event loop runs every coroutine that is ready: a suspended handler or
\* task is resumed.  Messages (signals, kill switch, execution reports)
\* arrive or do not.
SpecOrderTasksFair == SpecOrderTasks /\ WF_vars(OtResume)

StartKL == IdleCore /\ IdleMore /\ IdleExt /\ IdleOT /\ InitKL /\ IdleWL /\ IdleFD
SpecLatch == StartKL /\ [][NextKL]_vars

StartWL == IdleCore /\ IdleMore /\ IdleExt /\ IdleOT /\ IdleKL /\ InitWL /\ IdleFD
SpecWindowLoop == StartWL /\ [][NextWL]_vars

\* A called function runs: it is entered and every turn of its loop is taken.
SpecWindowLoopFair == SpecWindowLoop /\ WF_vars(NextWL)

StartFD == IdleCore /\ IdleMore /\ IdleExt /\ IdleOT /\ IdleKL /\ IdleWL /\ InitFD
SpecFeed == StartFD /\ [][NextFD]_vars

\* The event loop runs start(), the receive task and run_async whenever they
\* are ready; klines and interrupts arrive or do not.
SpecFeedFair ==
    SpecFeed /\ WF_vars(FdSubscribed) /\ WF_vars(FdStream) /\ WF_vars(FdReceive)
             /\ WF_vars(FdStop)

(***************************************************************************)
(* Claims about the kill switch and the order manager                      *)
(***************************************************************************)

\* C1: once the market's kill switch is triggered and not yet reset, a signal
\* processed by the market's order manager creates no order, in every mode.
\* (lastSignal.ksTriggered is the switch's state when the signal was processed.)
C1_NoOrderWhileTriggered ==
    lastSignal.outcome = "order" => ~lastSignal.ksTriggered

\* C7: a signal processed after the triggered switch has been reset (the switch
\* is Armed again) produces an order that goes to the broker.
C7_OrdersFlowAfterReset ==
    (lastSignal.outcome # "none" /\ lastSignal.afterReset)
        => lastSignal.outcome = "order"

\* C8: at a kill-switch activation, a cancel is attempted for every order that
\* is open (submitted and not terminal) at that moment.
C8_CancelEveryOpenOrder ==
    lastActivation.seen => lastActivation.open \subseteq lastActivation.attempted

(***************************************************************************)
(* Claims about the risk manager                                           *)
(***************************************************************************)

\* C5: an update leaves the kill switch triggered iff it was already triggered,
\* or (peak - current)/peak*100 >= max_drawdown_pct, or
\* (daily_start - current)/daily_start*100 >= daily_loss_limit_pct, with peak the
\* largest equity seen since start and daily_start the equity at the last
\* reset_daily (the initial equity if none), both taken from the history.
C5_TriggerIffBreach ==
    lastUpdate.seen =>
        (lastUpdate.after <=>
            \/ lastUpdate.before
            \/ (lastUpdate.peak - lastUpdate.current) * 100
                   >= rmMaxDrawdownPct * lastUpdate.peak
            \/ (lastUpdate.dailyStart - lastUpdate.current) * 100
                   >= rmDailyLossLimitPct * lastUpdate.dailyStart)

\* C5 witness: an update after a reset_daily triggers the switch by the daily
\* loss alone (drawdown below the limit, switch not triggered before).
C5_Witness ==
    /\ lastUpdate.seen /\ lastUpdate.after /\ ~lastUpdate.before
    /\ resetAt > 0
    /\ lastUpdate.dailyStart # InitialEquity
    /\ (lastUpdate.peak - lastUpdate.current) * 100 < rmMaxDrawdownPct * lastUpdate.peak

\* The drawdown-kill scenario: updates 100000, 95000, 90000, 89999.99.
Scenario == <<10000000, 9500000, 9000000, 8999999>>
InScenario(k) == resetAt = 0 /\ eqHist = SubSeq(Scenario, 1, k)

\* C6 as claimed: the switch is not triggered after each of the first three
\* updates and is triggered after the last one.
C6_TriggersOnLastUpdate ==
    /\ \A k \in 1..3 : InScenario(k) => ~rmTriggered
    /\ InScenario(4) => rmTriggered

\* C6 amended: when the daily-loss limit is above 10 (only the drawdown check
\* decides), the switch is not triggered after the first two updates and is
\* triggered after the third (90000: drawdown exactly 10 >= 10) and the fourth.
C6_TriggersOnThirdUpdate ==
    rmDailyLossLimitPct > 10 =>
        /\ \A k \in 1..2 : InScenario(k) => ~rmTriggered
        /\ \A k \in 3..4 : InScenario(k) => rmTriggered

\* C6 witness: the whole scenario has run with the drawdown check deciding.
C6_Witness ==
    rmDailyLossLimitPct > 10 /\ InScenario(4) /\ rmTriggered

(***************************************************************************)
(* Claims about the position tracker                                       *)
(***************************************************************************)

SignedPosition(s) ==
    IF ptPositions[s].side = "buy" THEN ptPositions[s].quantity
    ELSE IF ptPositions[s].side = "sell" THEN -ptPositions[s].quantity
    ELSE 0

\* C9: after any sequence of fills, for every symbol the signed position quantity
\* (+ long, - short, 0 none) equals the net signed sum of the symbol's fill
\* quantities, also when an opposite-side fill is larger than the open quantity.
C9_PositionIsNetFillSum ==
    \A s \in Symbols : SignedPosition(s) = ptNet[s]

(***************************************************************************)
(* Claims about fills                                                      *)
(***************************************************************************)

\* C10: every Fill has latency_ms >= 1; a simulated fill moreover has
\* slippage_bps >= 0 and an executed price >= the base price for a buy and <= the
\* base price for a sell, for every order type and market price.
C10_AdverseFillsWithLatency ==
    lastFill.seen =>
        /\ lastFill.latency >= 1
        /\ lastFill.slippage >= 0
        /\ lastFill.side = "buy" => lastFill.price >= lastFill.base
        /\ lastFill.side = "sell" => lastFill.price <= lastFill.base

\* The part of C10 about simulate_fill alone.
C10_SimulatedFillsAdverse ==
    lastFill.source = "simulator" => C10_AdverseFillsWithLatency

(***************************************************************************)
(* Claims about the bar engine                                             *)
(*                                                                         *)
(* A run made in the process, whatever ran before it, is compared with the *)
(* run on the same bars, or on a prefix of them, in a process that has run *)
(* nothing yet.                                                            *)
(***************************************************************************)

RefInputs == UNION {{SubSeq(bars, 1, k) : k \in 0..Len(bars)} : bars \in RunInputs}

RefRuns ==
    [bars \in RefInputs |->
        The({RunRecord(0, bars, rs) : rs \in {ProcessCandles(FreshRun, bars, 1)}})]

\* C2: running the engine on the prefix b1..bk yields the same signal sequence, the
\* same positions (after bar k) and the same equity-curve entries 1..k as running
\* it on the full sequence.
C2_NoLookAhead ==
    lastRun.done =>
        \A k \in 1..Len(lastRun.bars) :
            LET prefix == RefRuns[SubSeq(lastRun.bars, 1, k)]
            IN /\ prefix.signals = SubSeq(lastRun.signals, 1, k)
               /\ prefix.posTrace[k] = lastRun.posTrace[k]
               /\ prefix.result.equityCurve = SubSeq(lastRun.result.equityCurve, 1, k)

\* C2 witness: a full run that entered on one bar and exited on a later one,
\* so that its prefixes end with the position open.
C2_Witness ==
    /\ lastRun.done
    /\ \E k \in 1..Len(lastRun.bars) : lastRun.signals[k] = "enter_long"
    /\ lastRun.signals[Len(lastRun.bars)] = "exit_long"

C3_WitnessRerun ==
    /\ nRuns = 2
    /\ lastRun.engine = 1
    /\ lastRun.result.totalTrades > 0
    /\ ~engines[2].created

\* The positions of a finished run that no trade of the result has closed.
StillOpen(rec) ==
    LET Unclosed(pos) == \A i \in 1..Len(rec.result.trades) :
                             rec.result.trades[i].entryTime # pos.openedAt
    IN SelectSeq(rec.eng.positions, Unclosed)

\* C4: at completion of a run with trades, the final equity is initial_capital +
\* the pnl of the trades of the result (force-close trades included) + the
\* unrealised P&L of the positions still open: every position is counted once.
C4_EachPositionCountedOnce ==
    (lastRun.done /\ lastRun.result.totalTrades > 0) =>
        lastRun.result.finalEquity =
            InitialCapital + SumPnl(lastRun.result.trades)
                + SumUnrealized(StillOpen(lastRun))

(***************************************************************************)
(* Claims about a seeded fill simulator                                    *)
(***************************************************************************)

\* The fills of a call sequence made from `random` state s with nothing else
\* drawing in between.
RECURSIVE FillsFrom(_, _, _)
FillsFrom(s, calls, i) ==
    IF i > Len(calls) THEN <<>>
    ELSE LET f == SimulateFill(s, calls[i].order, calls[i].marketPrice, fsMinLatency)
         IN <<f>> \o FillsFrom(f.rng, calls, i + 1)

\* C11: the calls of a simulator made with a fixed seed return, call by call, the
\* executed price, slippage, latency and commission that the same call sequence
\* returns right after seeding, whatever other simulators were created or used
\* in the process in between.
C11_SeedFixesTheFills ==
    LET ref == FillsFrom(RngSeed(simTracked.seed), simCalls, 1)
    IN \A i \in 1..Len(simCalls) :
          /\ simCalls[i].fill.price = ref[i].price
          /\ simCalls[i].fill.slippage = ref[i].slippage
          /\ simCalls[i].fill.latency = ref[i].latency
          /\ simCalls[i].fill.commission = ref[i].commission

\* C11, second part: a crypto market buy executes inside
\* [p * (1 + 5/10000), p * (1 + 15/10000)] of the market price p.
C11_BuyInsideSlippageBand ==
    \A i \in 1..Len(simCalls) :
        simCalls[i].order.side = "buy" =>
            /\ simCalls[i].fill.price * 10000 >= simCalls[i].marketPrice * 10005
            /\ simCalls[i].fill.price * 10000 <= simCalls[i].marketPrice * 10015

(***************************************************************************)
(* Claims about the V2 strategy registry                                   *)
(***************************************************************************)

\* The call returned without raising.
RegAccepted == regLast.done /\ regLast.error = "none"

\* An import statement that breaks the import policy of the call.
ViolatesPolicy(stmt) ==
    \/ stmt.level > 0
    \/ MatchesPrefix(stmt.module, regInput.lists.denied)
    \/ ~MatchesPrefix(stmt.module, regInput.lists.allowed)

\* C12: a strategy file accepted by the loader (or by validate_strategy_imports)
\* has no import, anywhere in the file, whose module matches the deny list, all
\* its imports match the allow list and none is relative; a module on both lists
\* is rejected.
C12_AcceptedFilesObeyImportPolicy ==
    RegAccepted =>
        \A i \in 1..Len(regInput.file.imports) : ~ViolatesPolicy(regInput.file.imports[i])

\* C12 witness: load_strategy_bundle returned the bundle of a file with two
\* imports, one of them nested in a function.
C12_Witness ==
    /\ RegAccepted
    /\ regInput.op = "load"
    /\ Len(regInput.file.imports) = 2
    /\ \E i \in 1..2 : regInput.file.imports[i].nested

\* C12, modules on both lists: a validation with an allow list that also holds
\* "os" rejected a file whose only import is os.path.
C12_WitnessBothLists ==
    /\ regLast.done
    /\ regLast.error = "StrategyImportViolationError"
    /\ regInput.op = "validate"
    /\ Len(regInput.file.imports) = 1
    /\ MatchesPrefix(regInput.file.imports[1].module, regInput.lists.allowed)
    /\ MatchesPrefix(regInput.file.imports[1].module, regInput.lists.denied)

\* C13: load_strategy_bundle of a readable file with unparseable source raises
\* StrategySandboxError, of a file with a policy-violating import raises
\* StrategyImportViolationError, and in both cases the module-load step (which
\* executes the file) is not reached.
C13_RejectedBeforeExecution ==
    (regLast.done /\ regInput.op = "load" /\ regInput.file.resolves
        /\ regInput.file.readable) =>
        LET file == regInput.file
            violating == \E i \in 1..Len(file.imports) : ViolatesPolicy(file.imports[i])
            executed == \E i \in 1..Len(regLast.steps) : regLast.steps[i] = "load_module"
        IN /\ ~file.parses => (regLast.error = "StrategySandboxError" /\ ~executed)
           /\ (file.parses /\ violating) =>
                  (regLast.error = "StrategyImportViolationError" /\ ~executed)

\* C13 witness: a load of a parseable file that imports requests was rejected.
C13_Witness ==
    /\ regLast.done
    /\ regInput.op = "load"
    /\ regInput.file.parses
    /\ regInput.file.readable
    /\ \E i \in 1..Len(regInput.file.imports) :
          regInput.file.imports[i].module = <<"requests">>
    /\ regLast.error = "StrategyImportViolationError"

\* The bundle the file exports breaks the schema.
BadSchema(bundle) ==
    \/ bundle.universe = <<>>
    \/ bundle.requiredFields = <<>>
    \/ bundle.overrides.class = "other"
    \/ bundle.overrides.cost = "other"
    \/ bundle.overrides.risk = "other"
    \/ bundle.overrides.sizing = "other"

\* The load reached _validate_bundle.
ReachedSchemaCheck ==
    /\ regLast.done
    /\ regInput.op = "load"
    /\ regLast.steps = LoadSteps

\* C14: load_strategy_bundle raises StrategySchemaError for every bundle with an
\* empty universe, empty required_fields, or an overrides object or a present
\* cost/risk/sizing override of the wrong shape.
C14_BadSchemaRaisesSchemaError ==
    (ReachedSchemaCheck /\ BadSchema(regInput.file.bundle)) =>
        IsInstance(regLast.error, "StrategySchemaError")

\* C14, second part: no bundle that breaks the schema is returned.
C14_BadSchemaNeverReturned ==
    (ReachedSchemaCheck /\ BadSchema(regInput.file.bundle)) => regLast.error # "none"

(***************************************************************************)
(* Claims about the V2 policy merge                                        *)
(***************************************************************************)

\* The value the merge rule gives field f of section s: the override's value if
\* the overrides object, the section and the field are all non-null, otherwise
\* the default's value.
MergeRule(s, f) ==
    IF mergeOverrides # <<>> /\ mergeOverrides[1][s] # <<>>
        /\ mergeOverrides[1][s][1][f] # <<>>
    THEN mergeOverrides[1][s][1][f][1]
    ELSE mergeDefaults[s][f]

\* C15: every field of cost, risk and sizing in the merged set is the override's
\* value when that is non-null and the default's value otherwise.
C15_MergeIsPerField ==
    merged # <<>> =>
        \A s \in {"cost", "risk", "sizing"} :
            /\ DOMAIN merged[1][s] = DOMAIN mergeDefaults[s]
            /\ \A f \in DOMAIN mergeDefaults[s] : merged[1][s][f] = MergeRule(s, f)

\* C15 witness: a merge in which one section is null, one field of another
\* section is overridden with 0.0 and another field of it is inherited.
C15_Witness ==
    /\ merged # <<>>
    /\ mergeOverrides # <<>>
    /\ mergeOverrides[1].risk = <<>>
    /\ mergeOverrides[1].cost # <<>>
    /\ mergeOverrides[1].cost[1].commission_bps = <<0>>
    /\ mergeOverrides[1].cost[1].slippage_bps = <<>>
    /\ merged[1].cost.commission_bps = 0
    /\ merged[1].cost.slippage_bps = mergeDefaults.cost.slippage_bps

(***************************************************************************)
(* Claims about the V2 runner loop                                         *)
(***************************************************************************)

\* The calls that follow one on_bar call: for each returned intent, in order,
\* execute and then (if the strategy has on_fill) on_fill.
RECURSIVE CallsForIntents(_, _, _)
CallsForIntents(onBar, intents, i) ==
    IF i > Len(intents) THEN <<>>
    ELSE <<[onBar EXCEPT !.call = "execute", !.intents = <<<<intents[i]>>>>]>>
         \o (IF runner.hasOnFill
             THEN <<[onBar EXCEPT !.call = "on_fill", !.intents = <<<<intents[i]>>>>]>>
             ELSE <<>>)
         \o CallsForIntents(onBar, intents, i + 1)

\* The protocol's log for the on_bar calls of a log: each on_bar followed by the
\* calls for its intents.
RECURSIVE ProtocolLog(_, _)
ProtocolLog(log, i) ==
    IF i > Len(log) THEN <<>>
    ELSE IF log[i].call # "on_bar" THEN ProtocolLog(log, i + 1)
    ELSE <<log[i]>>
         \o CallsForIntents(log[i], IF log[i].intents = <<>> THEN <<>>
                                    ELSE log[i].intents[1], 1)
         \o ProtocolLog(log, i + 1)

FinalizeCall == [call |-> "finalize", symbol |-> "", bar |-> 0, intents |-> <<>>]

RECURSIVE TotalBars(_, _)
TotalBars(universe, i) ==
    IF i > Len(universe) THEN 0
    ELSE runner.barCount[universe[i]] + TotalBars(universe, i + 1)

\* C16: when run_mode returns, execute was called once per intent returned by
\* on_bar, in emission order, each fill went to on_fill before the next execute
\* or on_bar, finalize was called once, after everything else, and the result
\* has orders_submitted = number of fills and bars_processed = number of bars of
\* the universe.
C16_RunnerProtocol ==
    runner.result.returned =>
        /\ runLog = ProtocolLog(runLog, 1)
                    \o (IF runner.hasFinalize THEN <<FinalizeCall>> ELSE <<>>)
        /\ runner.result.ordersSubmitted = Len(runner.result.fills)
        /\ runner.result.barsProcessed = TotalBars(runner.universe, 1)
        /\ Cardinality({i \in 1..Len(runLog) : runLog[i].call = "on_bar"})
               = TotalBars(runner.universe, 1)
        /\ Cardinality({i \in 1..Len(runLog) : runLog[i].call = "execute"})
               = Len(runner.result.fills)

\* C16 witness: a finished run over two symbols in which one on_bar call
\* returned two intents and the strategy has on_fill and finalize.
C16_Witness ==
    /\ runner.result.returned
    /\ runner.hasOnFill
    /\ runner.hasFinalize
    /\ Len(runner.universe) = 2
    /\ runner.result.barsProcessed = 2
    /\ \E i \in 1..Len(runLog) :
          runLog[i].call = "on_bar" /\ runLog[i].intents = <<<<"buy", "sell">>>>

\* The positions open after the last bar of a finished run, before the
\* force-close.
OpenAtEnd(rec) == rec.posTrace[Len(rec.posTrace)]

\* C17, first part: every position open when the stream ends has exactly one
\* trade in the result that closes it at its last current_price, with holding
\* days >= 1.
C17_OneSyntheticTradePerPosition ==
    lastRun.done =>
        \A i \in 1..Len(OpenAtEnd(lastRun)) :
            LET pos == OpenAtEnd(lastRun)[i]
            IN Cardinality({j \in 1..Len(lastRun.result.trades) :
                               /\ lastRun.result.trades[j].entryTime = pos.openedAt
                               /\ lastRun.result.trades[j].exitPrice = pos.current
                               /\ lastRun.result.trades[j].holdingDays >= 1}) = 1

\* C17: after run() returns, every position that was open at the end of the
\* stream has its synthetic trade and no position remains open in the engine.
C17_NoPositionOpenAfterRun ==
    lastRun.done =>
        /\ C17_OneSyntheticTradePerPosition
        /\ lastRun.eng.positions = <<>>

\* C18: a run that returns has recorded no bar out of timestamp order: the
\* timestamps of its equity curve never decrease (a stream with a bar older than
\* one already processed must fail instead).
C18_OutOfOrderBarsRejected ==
    lastRun.done =>
        LET curve == lastRun.result.equityCurve
        IN \A i, j \in 1..Len(curve) : i < j => curve[i][1] <= curve[j][1]

(***************************************************************************)
(* Claims about the broker stub                                            *)
(***************************************************************************)

\* C19: once the order's status is FILLED, CANCELLED or REJECTED it never changes
\* again, under every interleaving of submit_order (with its latency wait) and
\* cancel_order on the order.
C19_TerminalStatusesMonotonic ==
    \A i \in 1..(Len(stLog) - 1) :
        stLog[i] \in TerminalStatuses => stLog[i + 1] = stLog[i]

\* C19, the interleaving in the latency wait: cancel_order ran while submit_order
\* was suspended, and the resumed submit_order replaced CANCELLED by FILLED.
C19_FilledAfterCancel ==
    \E i \in 1..(Len(stLog) - 1) : stLog[i] = "cancelled" /\ stLog[i + 1] = "filled"

\* C19, without interleaving: cancel_order replaced the REJECTED status that
\* submit_order gave a market order for which no price is known.
C19_CancelledAfterRejected ==
    \E i \in 1..(Len(stLog) - 1) : stLog[i] = "rejected" /\ stLog[i + 1] = "cancelled"

\* What _process_signal does with a signal when nothing is wrong: it drops it only
\* when the kill switch is latched, and an order the broker accepts is SUBMITTED
\* and enters _pending_orders.
ProcessedNormally(s) ==
    /\ s.outcome = "dropped" => omKilled
    /\ (s.outcome = "order" /\ ~s.brokerRaised)
           => /\ s.submit.status = "submitted"
              /\ s.submit.tracked
              /\ s.submit.errorMessage = <<>>
    /\ ~s.submit.propagated

\* C20: a failing broker.submit_order is non-fatal and per-order.  When submit_order
\* raised for the last processed signal, its order is REJECTED with error_message
\* set, no exception left _process_signal, and the order is not in _pending_orders;
\* and the signal processed after a failed one is processed normally.
C20_SubmitFailureIsPerOrder ==
    /\ lastSignal.brokerRaised
           => /\ lastSignal.submit.status = "rejected"
              /\ orders[lastSignal.order] = "rejected"
              /\ lastSignal.submit.errorMessage # <<>>
              /\ ~lastSignal.submit.propagated
              /\ ~lastSignal.submit.tracked
              /\ lastSignal.order \notin pending
    /\ lastSignal.afterFailure => ProcessedNormally(lastSignal)

\* C20 witness: submit_order raised for one signal (its order is REJECTED), and the
\* next signal's order was accepted by the broker and is open.
C20_Witness ==
    /\ lastSignal.afterFailure
    /\ lastSignal.outcome = "order"
    /\ ~lastSignal.brokerRaised
    /\ lastSignal.order > 1
    /\ orders[lastSignal.order - 1] = "rejected"
    /\ lastSignal.order \in pending

\* C20 witness of the failure itself: the last signal's submit_order raised.
C20_WitnessFailure ==
    /\ lastSignal.brokerRaised
    /\ orders[lastSignal.order] = "rejected"
    /\ pending # {}

(***************************************************************************)
(* Claims about the StrategyRunner pipeline                                *)
(***************************************************************************)

\* stop() has returned.
StopReturned == pipe.pc = "stopped"

\* run_async is past runner.stop(): stop returned or raised.
RunOver == pipe.pc \in {"stopped", "stop_raised"}

\* C21: when StrategyRunner.stop returns it has first disconnected the data feed,
\* then dealt with the broker's orders, then stopped the strategy engine, and no
\* order is open (SUBMITTED or PARTIAL) at the broker.
C21_StopLeavesNoOpenOrder ==
    StopReturned
        => /\ Head(pipeLog) = "feed.disconnect"
           /\ pipeLog[Len(pipeLog)] = "engine.stop"
           /\ \A i \in 1..Len(pipe.orders) : pipe.orders[i] \notin OpenStatuses

\* C21, the order of the steps alone: feed, then order manager and broker, then
\* strategy engine.
C21_StopOrder ==
    StopReturned => pipeLog = <<"feed.disconnect", "broker.disconnect", "engine.stop">>

\* C22: on every exit path of the run, each port (broker, data feed) that was
\* connected during start has been asked to disconnect.
C22_ConnectedPortsAreDisconnected ==
    RunOver => \A port \in pipe.connected :
                   \E i \in 1..Len(pipeLog) :
                       pipeLog[i] = IF port = "feed" THEN "feed.disconnect"
                                    ELSE "broker.disconnect"

\* C22, the exit paths on which stop() itself does not raise.
C22_DisconnectedWhenStopReturns ==
    StopReturned => ~pipe.brokerConnected /\ ~pipe.feedConnected

(***************************************************************************)
(* Claims about the walk-forward windows                                   *)
(***************************************************************************)

\* The configuration of the example: 2022-01-01 to 2024-01-01, 252/63/63 days.
ExampleWfConfig ==
    [start |-> 0, end |-> 730, isDays |-> DefaultInSampleDays,
     oosDays |-> DefaultOutOfSampleDays, stepDays |-> DefaultStepDays]

\* C25: generate_windows returns windows i = 0..n-1 with is_start = start + i*step,
\* is_end = is_start + is_days, oos_start = is_end, oos_end = oos_start + oos_days
\* and oos_end <= end; n is the largest such count (window n would end after
\* end_date); the example configuration gives exactly 7 windows.
C25_WindowsAreTheFittingOnes ==
    wfWindows # <<>> =>
        LET ws == wfWindows[1]
            n == Len(ws)
            isStartOf(i) == wfConfig.start + i * wfConfig.stepDays
        IN /\ \A k \in 1..n :
                  /\ ws[k].id = k - 1
                  /\ ws[k].isStart = isStartOf(k - 1)
                  /\ ws[k].isEnd = ws[k].isStart + wfConfig.isDays
                  /\ ws[k].oosStart = ws[k].isEnd
                  /\ ws[k].oosEnd = ws[k].oosStart + wfConfig.oosDays
                  /\ ws[k].oosEnd <= wfConfig.end
           /\ isStartOf(n) + wfConfig.isDays + wfConfig.oosDays > wfConfig.end
           /\ wfConfig = ExampleWfConfig => n = 7

\* C25 witness: the example configuration, with its seven windows returned.
C25_Witness ==
    /\ wfConfig = ExampleWfConfig
    /\ wfWindows # <<>>
    /\ Len(wfWindows[1]) = 7
    /\ wfWindows[1][7].oosEnd = 693

\* C25 witness of the boundary: a window whose oos_end is the end date itself.
C25_WitnessBoundary ==
    /\ wfWindows # <<>>
    /\ Len(wfWindows[1]) > 0
    /\ wfWindows[1][Len(wfWindows[1])].oosEnd = wfConfig.end

(***************************************************************************)
(* Claims about engines that share a process                               *)
(***************************************************************************)

\* The signals a strategy of its own, freshly initialised, emits for the first k
\* bars of a stream.
RECURSIVE AloneFrom(_, _, _, _)
AloneFrom(st, bars, j, k) ==
    IF j > k THEN <<>>
    ELSE The({<<out.signal>> \o AloneFrom(out.strat, bars, j + 1, k) :
              out \in {OnCandle(st, bars[j])}})

AloneSignals(bars, k) == AloneFrom(NoSymbolState, bars, 1, k)

\* C23: engines that live in one process share nothing mutable: the signals an
\* engine has produced are those it produces when it is the only engine of the
\* process, whatever candles the other engine has processed in between.
C23_EnginesDoNotInterfere ==
    \A e \in ShEngines : sh.eng[e].signals = AloneSignals(sh.bars, sh.eng[e].k)

\* C23 for engines with different symbols: the other engine's first candle
\* re-initialises the shared Strategy object all the same.
C23_DifferentSymbolsDoNotInterfere ==
    sh.symbols[1] # sh.symbols[2] => C23_EnginesDoNotInterfere

(***************************************************************************)
(* Claims about returned results                                           *)
(***************************************************************************)

\* The lists of the result that run() returned last, as they were at the return.
ReturnedLists ==
    [trades |-> lastRun.result.trades, equityCurve |-> lastRun.result.equityCurve]

\* C24: the trades and the equity curve of a BacktestResult returned by run() are
\* not changed by any later operation of the engine, a later run() included: no
\* step changes what the result returned last holds.
C24_ReturnedResultIsImmutable ==
    [][lastRun.done => ResultListsNow(engines'[lastRun.engine]) = ReturnedLists]_vars

\* C24 for operations of other engines: creating or running another engine
\* leaves the result returned last as it was.
C24_OtherEnginesLeaveResult ==
    [][(lastRun.done /\ lastRun'.engine # lastRun.engine)
          => ResultListsNow(engines'[lastRun.engine]) = ReturnedLists]_vars

(***************************************************************************)
(* Claims about signal processing                                          *)
(***************************************************************************)

\* The action of the last call does not apply to what was open for its symbol.
LastSignalInapplicable ==
    LET open == sgLast.positions[sgLast.symbol]
    IN \/ sgLast.action \in {"enter_long", "enter_short"} /\ open # <<>>
       \/ sgLast.action = "exit_long" /\ (open = <<>> \/ open[1].side # "buy")
       \/ sgLast.action = "exit_short" /\ (open = <<>> \/ open[1].side # "sell")

\* C27: a signal whose action does not apply (an entry while a position of the
\* symbol is open, EXIT_LONG without a long, EXIT_SHORT without a short) changes
\* neither the position map nor the trade list and simulates no fill; no symbol
\* ever has more than one open position.
C27_InapplicableSignalsAreIgnored ==
    /\ \A s \in SgSymbols : Len(sg.positions[s]) <= 1
    /\ (sgLast.called /\ LastSignalInapplicable)
           => /\ sg.positions = sgLast.positions
              /\ sg.trades = sgLast.trades
              /\ sg.fills = sgLast.fills

\* An entry arrived while a position of the opposite side was open.
C27_Witness ==
    /\ sgLast.called
    /\ sgLast.action = "enter_short"
    /\ sgLast.positions[sgLast.symbol] # <<>>
    /\ sgLast.positions[sgLast.symbol][1].side = "buy"

\* EXIT_LONG arrived while a short was open, with a trade already recorded.
C27_WitnessExit ==
    /\ sgLast.called
    /\ sgLast.action = "exit_long"
    /\ sgLast.positions[sgLast.symbol] # <<>>
    /\ sgLast.positions[sgLast.symbol][1].side = "sell"
    /\ sgLast.trades # <<>>

(***************************************************************************)
(* Claims about the metrics                                                *)
(***************************************************************************)

\* 0.01 in engine units.
LossFloor == Units(1) \div 100

\* C30: for every non-empty trade list, profit_factor is the sum of the P&L of
\* the trades with pnl > 0 divided by |sum of the P&L of the trades with pnl <= 0|,
\* the divisor being at least 0.01; also when no trade loses and when every
\* losing trade has pnl exactly 0.
C30_ProfitFactor ==
    pf.computed
        => pf.result.profitFactor
             = Frac(SumWhere(pf.trades, TRUE),
                    Max(Abs(SumWhere(pf.trades, FALSE)), LossFloor))

\* C30 where the code and the formula agree: no losing trade, or losses of at
\* least 0.01 in total.
C30_ProfitFactorAwayFromFloor ==
    (pf.computed /\ (\A i \in 1..Len(pf.trades) : pf.trades[i].pnl > 0
                     \/ Abs(SumWhere(pf.trades, FALSE)) >= LossFloor))
        => pf.result.profitFactor
             = Frac(SumWhere(pf.trades, TRUE),
                    Max(Abs(SumWhere(pf.trades, FALSE)), LossFloor))

(***************************************************************************)
(* Claims about the turtle scenario                                        *)
(***************************************************************************)

\* The bars of the finished run on which the signal was emitted.
BarsWith(signal) == {k \in 1..Len(sc.rs.signals) : sc.rs.signals[k] = signal}

\* The finished run recorded exactly one trade, and it gained.
OneGainingTrade ==
    /\ sc.result.totalTrades = 1
    /\ sc.result.trades[1].pnl > 0

\* C26: on the 25 daily bars with closes 100, 102, ..., 148 the run emits exactly
\* one ENTER_LONG, on bar 21 and on no earlier bar, emits no exit, and at stream
\* end has recorded exactly one trade, with positive P&L.
C26_EntryOnBar21 ==
    sc.done
        => /\ BarsWith("enter_long") = {LookbackEntry + 1}
           /\ BarsWith("exit_long") = {}
           /\ OneGainingTrade

\* C26 as the code has it on bars with high = low = close: the one ENTER_LONG is
\* on bar 20, the first bar on which the deque of 20 highs is full.
C26_PlainBarsEnterOnBar20 ==
    (sc.done /\ sc.bars = PlainStream)
        => /\ BarsWith("enter_long") = {LookbackEntry}
           /\ BarsWith("exit_long") = {}
           /\ OneGainingTrade

\* C26 for every stream: the entry is on the first bar, from bar 20 on, whose
\* close exceeds the highs of the 19 bars before it, and nothing else is emitted.
C26_EntryOnFirstBreakout ==
    sc.done
        => LET breakouts ==
                   {k \in LookbackEntry..Len(sc.bars) :
                       \A j \in (k - LookbackEntry + 1)..(k - 1) :
                           sc.bars[k].close > sc.bars[j].high}
           IN /\ BarsWith("exit_long") = {}
              /\ BarsWith("enter_long")
                    = {k \in breakouts : \A j \in breakouts : k <= j}

\* The finished run of the stream with the spiked high.
C26_SpikedStreamEntersOnBar21 ==
    /\ sc.done
    /\ sc.bars = ScenarioBars(0, 0, TRUE)
    /\ BarsWith("enter_long") = {LookbackEntry + 1}

(***************************************************************************)
(* Claims about the walk-forward runs                                      *)
(***************************************************************************)

RuleAfterFill(open, fill) ==
    IF open = Tracked(NoPosition)
    THEN [side |-> fill.side, quantity |-> fill.quantity, avg |-> <<fill.price, 1>>]
    ELSE IF fill.side = open.side
    THEN [side |-> open.side, quantity |-> open.quantity + fill.quantity,
          avg |-> Frac(open.quantity * open.avg[1]
                           + fill.quantity * fill.price * open.avg[2],
                       open.avg[2] * (open.quantity + fill.quantity))]
    ELSE IF fill.quantity >= open.quantity
    THEN [side |-> "none", quantity |-> 0, avg |-> <<0, 1>>]
    ELSE [side |-> open.side, quantity |-> open.quantity - fill.quantity,
          avg |-> open.avg]

\* sign * (fill_price - avg_entry) * quantity, as a fraction.
RuleRealized(open, fill, quantity) ==
    Frac((IF open.side = "buy" THEN 1 ELSE -1)
             * (fill.price * open.avg[2] - open.avg[1]) * quantity,
         open.avg[2])

\* C28: after every fill the position tracked for the fill's symbol is: the fill's
\* side, quantity and price if none was tracked (also after a close); on the same
\* side, quantity q+dq at the weighted average entry; on the opposite side with
\* fill_qty >= open_qty, none, with sign*(fill_price-avg_entry)*open_qty realised;
\* on the opposite side with fill_qty < open_qty, the quantity reduced by fill_qty
\* with sign*(fill_price-avg_entry)*fill_qty realised; the positions of the other
\* symbols are unchanged.
C28_FillRule ==
    (ptLast.seen /\ ptFills > 0)
        => LET fill == ptLast.fill
               open == ptLast.before[fill.symbol]
               now == ptPositions[fill.symbol]
               rule == RuleAfterFill(open, fill)
           IN /\ now.side = rule.side
              /\ now.quantity = rule.quantity
              /\ now.avg = rule.avg
              /\ (open # Tracked(NoPosition) /\ fill.side # open.side)
                    => ptLast.realized
                         = RuleRealized(open, fill,
                                        IF fill.quantity >= open.quantity
                                        THEN open.quantity ELSE fill.quantity)
              /\ (now # NoPosition /\ open # Tracked(NoPosition) /\ fill.side # open.side)
                    => now.realized = FracAdd(open.realized, ptLast.realized)
              /\ \A s \in Symbols \ {fill.symbol} :
                    Tracked(ptPositions[s]) = ptLast.before[s]

\* C28 witness: an opposite-side fill larger than the open position closed it at
\* a gain or a loss, while the other symbol has a position.
C28_Witness ==
    /\ ptLast.seen
    /\ ptLast.before[ptLast.fill.symbol] # Tracked(NoPosition)
    /\ ptLast.before[ptLast.fill.symbol].side # ptLast.fill.side
    /\ ptLast.fill.quantity > ptLast.before[ptLast.fill.symbol].quantity
    /\ ptLast.realized[1] # 0
    /\ ptPositions[ptLast.fill.symbol] = NoPosition
    /\ \E s \in Symbols : ptPositions[s] # NoPosition

\* C28 witness, late fill: a fill arrived after its symbol's position had been
\* closed and made a new position.
C28_WitnessAfterClose ==
    /\ ptLast.seen
    /\ ptFills >= 3
    /\ ptLast.before[ptLast.fill.symbol] = Tracked(NoPosition)
    /\ ptNet[ptLast.fill.symbol] # SignedFill(ptLast.fill)
    /\ ptPositions[ptLast.fill.symbol].quantity = ptLast.fill.quantity

\* C28 witness, partial close: an opposite-side fill smaller than the position,
\* whose average entry is not a whole number.
C28_WitnessPartial ==
    /\ ptLast.seen
    /\ ptLast.before[ptLast.fill.symbol] # Tracked(NoPosition)
    /\ ptLast.before[ptLast.fill.symbol].avg[2] > 1
    /\ ptLast.before[ptLast.fill.symbol].side # ptLast.fill.side
    /\ ptLast.fill.quantity < ptLast.before[ptLast.fill.symbol].quantity
    /\ ptLast.realized[1] # 0

(***************************************************************************)
(* Claims about the equity curve                                           *)
(***************************************************************************)

\* The unrealised P&L of positions, from their entry and current prices.
RECURSIVE MarkedPnl(_)
MarkedPnl(positions) ==
    IF positions = <<>> THEN 0
    ELSE PositionPnl(Head(positions), Head(positions).current)
         + MarkedPnl(Tail(positions))

\* The equity after bar i of the finished run: the initial capital, the P&L of the
\* trades closed up to bar i and the unrealised P&L of the positions open after it.
EquityAfterBar(rec, i) ==
    InitialCapital + SumPnl(SubSeq(rec.result.trades, 1, rec.tradeTrace[i]))
        + MarkedPnl(rec.posTrace[i])

\* The largest of the initial capital and the equities after bars 1..i.
RECURSIVE PeakAfterBar(_, _)
PeakAfterBar(rec, i) ==
    IF i = 0 THEN InitialCapital
    ELSE Max(PeakAfterBar(rec, i - 1), EquityAfterBar(rec, i))

\* The drawdown after bar i, as a fraction of the peak.
DrawdownAfterBar(rec, i) ==
    Frac(PeakAfterBar(rec, i) - EquityAfterBar(rec, i), PeakAfterBar(rec, i))

\* C31: after the bars b1..bk the equity curve has exactly k entries, entry i
\* being (bi.timestamp, initial capital + realised P&L of the trades closed up to
\* bar i + unrealised P&L of the positions open after bar i), and the maximum
\* drawdown is the largest (peak_i - equity_i)/peak_i over the bars, peak_i being
\* the maximum of the initial capital and the equities up to bar i.
C31_EquityCurveAndDrawdown ==
    lastRun.done
        => LET curve == lastRun.result.equityCurve
               n == Len(lastRun.bars)
               dd == lastRun.result.maxDrawdown
           IN /\ Len(curve) = n
              /\ \A i \in 1..n :
                    curve[i] = <<TimeOf(lastRun.bars, i), EquityAfterBar(lastRun, i)>>
              /\ \A i \in 1..n :
                    LET d == DrawdownAfterBar(lastRun, i)
                    IN ~FracLess(dd[1], dd[2], d[1], d[2])
              /\ \/ dd = <<0, 1>>
                 \/ \E i \in 1..n : dd = DrawdownAfterBar(lastRun, i)

\* C31 witness: a second run in the process carried an open position at a loss
\* over a bar, so that its drawdown is positive.
C31_Witness ==
    /\ nRuns = 2
    /\ lastRun.done
    /\ lastRun.result.maxDrawdown[1] > 0
    /\ \E i \in 1..Len(lastRun.bars) :
          /\ lastRun.posTrace[i] # <<>>
          /\ MarkedPnl(lastRun.posTrace[i]) < 0

\* C31 witness, realised loss: a run closed a trade at a loss on its last bar.
C31_WitnessClosedTrade ==
    /\ lastRun.done
    /\ lastRun.result.maxDrawdown[1] > 0
    /\ lastRun.bars # <<>>
    /\ lastRun.tradeTrace[Len(lastRun.bars)] > 0
    /\ lastRun.posTrace[Len(lastRun.bars)] = <<>>

\* C32: no order reaches the broker while the latch is set, whatever the
\* interleaving of the kill-switch handler with a signal suspended inside
\* _process_signal: broker.submit_order is never invoked while _killed is
\* true, and once the kill-switch handler has finished no order is left
\* open at the broker in the pending set.
C32_LatchBlocksBroker ==
    /\ ot.submitKilled = {}
    /\ (ot.killPc = "done" /\ ot.sigPc = "idle")
           => \A id \in ot.pending : ot.exchange[id] # "open"

\* The latch check at the entry of _process_signal does hold back every
\* signal that arrives after the activation.
C32_SignalsAfterActivationAreDropped ==
    [][(ot.killed /\ ot.sigPc = "idle") => ot'.sigPc = "idle"]_vars

OtTerminal(id) == ot.exchange[id] \in TerminalStatuses

\* C38: every order that has reached a terminal status is eventually removed
\* from the pending set, whatever the order in which the fill and
\* order-update tasks interleave with the return of submit_order.
C38_TerminalOrdersLeavePending ==
    \A id \in OtIds : (OtTerminal(id) /\ id \in ot.pending) ~> (id \notin ot.pending)

\* An order whose fill is reported after its insertion is removed.
C38_LateFillsLeavePending ==
    \A id \in OtIds :
        (OtTerminal(id) /\ id \in ot.pending /\ \E t \in ot.fillTasks : t.id = id)
            ~> (id \notin ot.pending)

\* C37: the open-order set of the broker stub never holds an order in a
\* terminal status: once submit_order or cancel_order has returned, a
\* FILLED, CANCELLED or REJECTED order is not among get_open_orders().
C37_OpenOrdersAreNotTerminal ==
    stub.sleeping = 0 => ~(stub.open /\ stub.status \in TerminalStatuses)

\* The filled and the cancelled order do leave the open-order set.
C37_FilledAndCancelledLeaveOpenOrders ==
    stub.status \in {"filled", "cancelled"} => ~stub.open

EventsOfCycle(c) == {i \in 1..Len(kl.events) : kl.events[i].cycle = c}

\* C33: the kill-switch trigger is a latch: the trigger calls made between one
\* Armed -> Triggered transition and the next reset broadcast at most one
\* KillSwitchEvent and leave the reason and the time of the first of them in
\* place, and the switch is Triggered when trigger returns, also when the
\* broadcast failed.
C33_TriggerIsALatch ==
    /\ \A c \in 1..kl.cycle : Cardinality(EventsOfCycle(c)) <= 1
    /\ kl.triggered => (kl.at = kl.first.at /\ kl.reason = kl.first.reason)
    /\ kl.returned # <<>> => kl.returned[1]

\* A repeated trigger call with another reason has returned, the broadcast of
\* the first call has failed, and the switch holds the first call's reason.
C33_Witness ==
    /\ kl.triggered
    /\ kl.calls - kl.first.at[1] >= 2
    /\ kl.broadcasts = {}
    /\ EventsOfCycle(kl.cycle) = {}
    /\ kl.returned = <<TRUE>>
    /\ kl.reason = <<"drawdown">>

\* A second transition after a reset, with its own event.
C33_WitnessSecondCycle ==
    /\ kl.cycle = 2
    /\ Cardinality(EventsOfCycle(1)) = 1
    /\ Cardinality(EventsOfCycle(2)) = 1
    /\ kl.calls = MaxTriggerCalls

\* C34: the risk manager's peak invariant: after every update_equity the peak
\* is at least the current equity and is the largest of the initial equity
\* and all equities supplied (so it never decreases), and the drawdown
\* (peak - current) / peak is never negative.
C34_PeakInvariant ==
    /\ [](/\ rmPeak >= rmCurrent
          /\ rmPeak = HistPeak(eqHist)
          /\ rmPeak > 0
          /\ (rmPeak - rmCurrent) * 100 >= 0)
    /\ [][rmPeak' >= rmPeak]_vars

\* The equity rose above the initial equity and then fell below it.
C34_Witness ==
    /\ Len(eqHist) >= 2
    /\ rmPeak > InitialEquity
    /\ rmCurrent < InitialEquity
    /\ eqHist[Len(eqHist)] = rmCurrent

PositionRefs(positions) == [i \in 1..Len(positions) |-> PositionRef(positions[i])]

\* C35: the bar engine and the strategy context agree on positions: after
\* every processed bar, and at the start of every run, the positions the
\* signal engine holds for the StrategyContext are the engine's open
\* positions, with the same side, quantity and entry price.
C35_EngineAndContextAgree ==
    /\ lastRun.done =>
          /\ Len(lastRun.sigTrace) = Len(lastRun.bars)
          /\ \A i \in 1..Len(lastRun.bars) :
                 lastRun.sigTrace[i] = PositionRefs(lastRun.posTrace[i])
    /\ \A e \in Engines :
          engines[e].created =>
              /\ engines[e].sigTracked = PositionRefs(engines[e].positions)
              /\ ResetRun(e).eng.sigTracked = PositionRefs(ResetRun(e).eng.positions)

\* A run in which a position was opened and closed, on an engine that is
\* reset for a further run while the previous one has left a position.
C35_Witness ==
    /\ lastRun.done
    /\ \E i \in 1..Len(lastRun.bars) : lastRun.sigTrace[i] # <<>>
    /\ lastRun.tradeTrace # <<>>
    /\ lastRun.tradeTrace[Len(lastRun.tradeTrace)] >= 1
    /\ lastRun.posTrace[Len(lastRun.bars)] = <<>>

C35_WitnessResetWithPosition ==
    /\ lastRun.done
    /\ nRuns >= 2
    /\ \E e \in Engines : engines[e].created /\ engines[e].positions # <<>>

\* C36: generate_windows terminates and returns a finite list for every
\* configuration, including step_days = 0 or negative and start_date later
\* than end_date.
C36_GenerateWindowsReturns == <>(wl.pc = "returned")

\* With a positive step, or when no first window fits (as with start_date
\* later than end_date), the call returns.
C36_ReturnsWhenStepPositiveOrNothingFits ==
    (\/ wl.cfg.stepDays > 0
     \/ wl.cfg.start + wl.cfg.isDays + wl.cfg.oosDays > wl.cfg.end)
        => <>(wl.pc = "returned")

\* C39: candle liveness of the live runner: once start() has connected the
\* feed and subscribed, every candle the feed places on its queue is
\* eventually passed to the strategy, in enqueue order, unless the runner is
\* stopped from outside first.
C39_CandlesReachStrategy ==
    /\ [](\E n \in 0..Len(fd.enqueued) : fd.delivered = SubSeq(fd.enqueued, 1, n))
    /\ \A c \in 1..MaxCandles :
          (\E i \in 1..Len(fd.enqueued) : fd.enqueued[i] = c)
              ~> (fd.interrupted \/ \E i \in 1..Len(fd.delivered) : fd.delivered[i] = c)

\* The feed is never running while start() reads the stream, and no candle
\* is passed to the strategy.
C39_StreamEndsAtOnce ==
    /\ ~fd.feedRunning
    /\ fd.pc # "streaming"
    /\ fd.delivered = <<>>

\* The state of `random` at the k-th fill of a sequence seeded once: two
\* draws (slippage variation, latency jitter) per fill.
RECURSIVE SeededPosition(_)
SeededPosition(k) ==
    IF k = 1 THEN RngSeed(ConfigSeed) ELSE RngNext(RngNext(SeededPosition(k - 1)))

\* C40: the deterministic generator is seeded once per engine reset and not
\* between fills: in a run with a configured seed the k-th fill draws its
\* slippage variation and its latency from the k-th position of the seeded
\* sequence.
C40_FillsDrawSuccessivePositions ==
    lastRun.done =>
        \A k \in 1..Len(lastRun.eng.fillDraws) :
            lastRun.eng.fillDraws[k] = SeededPosition(k)

\* Every fill of a run draws from the first position of the seeded sequence.
C40_EveryFillDrawsFromTheSeed ==
    lastRun.done =>
        /\ Len(lastRun.eng.fillDraws) = lastRun.eng.fills
        /\ \A k \in 1..Len(lastRun.eng.fillDraws) :
               lastRun.eng.fillDraws[k] = RngSeed(ConfigSeed)

====
